---------------------------- MODULE Spec2Model ----------------------------
(***************************************************************************)
(* A model of the text-chunking and multi-pass summarization pipeline of   *)
(* llm_demo_text_summarize: the chunkers (utils/summarize.py,              *)
(* utils/enhance_summarize.py, utils/performance.py), the three pipelines  *)
(* (fast, enhanced, Chinese), the thread pool of the fast pipeline's first *)
(* pass, and the ModelCache behind cached_model_loader.                    *)
(*                                                                         *)
(* A text is a sequence of characters, each character a one-element        *)
(* string.  The full-width marks of the Chinese splitter are written       *)
(* "U3002", "UFF01", "UFF1F" and a CJK letter "U7532".                     *)
(***************************************************************************)
EXTENDS Integers, Sequences, FiniteSets, TLC

VARIABLES
    \* ---- chunkers (pure functions applied to drawn inputs)
    ck_text,      \* the text handed to the chunker
    ck_max,       \* max_tokens
    ck_tok,       \* the tokenizer in use: "chars", "letters" or "raises"
    ck_op,        \* which chunker has run: "none" before
    ck_groups,    \* sentence-aware packing: the sentence list of each chunk
    ck_windows,   \* token-window slicing: the id window of each slice
    ck_out,       \* the chunks returned
    \* ---- the thread pool of fast_summarize_text's first pass
    pl_pc,        \* the calling thread: "start", "collecting", "combined", "failed"
    pl_n,         \* len(chunks)
    pl_future,    \* per chunk index: "queued", "running" or "done"
    pl_result,    \* per chunk index: what _process_chunk_parallel returned
    pl_calls,     \* per chunk index: the summarizer calls made for the chunk
    pl_seen,      \* the futures as_completed has yielded so far
    pl_partials,  \* partials: the chunk index of each summary appended
    pl_combined,  \* the partials as joined into combined
    \* ---- ModelCache and the loaders decorated with cached_model_loader
    mc_max_size,  \* ModelCache.max_size
    mc_ttl,       \* ModelCache.ttl
    mc_now,       \* time.time()
    mc_cache,     \* ModelCache._cache: key -> [item, ts]
    mc_access,    \* ModelCache._access_times, in insertion order: [key, t]
    th_pc,        \* per thread: "idle", "get", "load", "set", "ready", "failed"
    th_model,     \* per thread: the model_name of its fast_summarize_text call
    th_loader,    \* per thread: the cache key of the loader it is in
    th_value,     \* per thread: the model its loader function built
    th_tok,       \* per thread: the tokenizer handle its request uses
    th_sum,       \* per thread: the summarizer handle its request uses
    \* ---- one summarization request
    p_pipeline,       \* "fast", "enhanced" or "chinese"
    p_text,           \* text
    p_max_sentences,  \* max_sentences
    p_model_name,     \* model_name (fast only)
    p_stage,          \* the stage the request is in, "DONE" or "FAILED"
    p_trace,          \* the stages entered so far, in order
    p_chunks,         \* chunks: per chunk "ok", or "short" if under the minimum
    p_done,           \* the chunks whose result has been taken
    p_calls,          \* per chunk: summarizer calls made for it
    p_partials,       \* the partial summaries of the first pass
    p_reduce_calls,   \* summarizer calls made by the second pass
    p_combined,       \* combined / combined_summary
    p_output,         \* the string returned
    p_error,          \* the message of the error raised, outermost part first
    p_loads,          \* calls of the tokenizer and summarizer loaders
    p_chunk_encode,   \* how tokenizer.encode ended while the text was chunked
    p_measured,       \* the token length measured for the combined summary
    p_passes,         \* second passes made
    p_reduce_outs     \* the outcomes of the calls of the second pass

chunkVars == <<ck_text, ck_max, ck_tok, ck_op, ck_groups, ck_windows, ck_out>>
poolVars  == <<pl_pc, pl_n, pl_future, pl_result, pl_calls, pl_seen,
               pl_partials, pl_combined>>

cacheVars == <<mc_max_size, mc_ttl, mc_now, mc_cache, mc_access,
               th_pc, th_model, th_loader, th_value, th_tok, th_sum>>

pipeVars  == <<p_pipeline, p_text, p_max_sentences, p_model_name, p_stage,
               p_trace, p_chunks, p_done, p_calls, p_partials, p_reduce_calls,
               p_combined, p_output, p_error, p_loads, p_chunk_encode,
               p_measured, p_passes, p_reduce_outs>>

vars == <<chunkVars, poolVars, cacheVars, pipeVars>>

(***************************************************************************)
(* Bounds of the model.                                                    *)
(***************************************************************************)
MaxTextLen    == 6
MaxBudget     == 3
MaxPoolChunks == 5
MaxCacheSize  == 2
MaxTtl        == 1
MaxTime       == 2
MaxChunks     == 2
MaxReduceChunks == 2
MaxSplitLen   == 5
MaxFastChunks == 3

(***************************************************************************)
(* Characters and the str methods the code uses.                           *)
(***************************************************************************)
Space     == {" ", "\n"}
LatinEnd  == {".", "!", "?"}
CjkEnd    == {"U3002", "UFF01", "UFF1F"}

IsBlank(s) == \A i \in 1..Len(s) : s[i] \in Space

RECURSIVE LStrip(_)
LStrip(s) == IF s # <<>> /\ Head(s) \in Space THEN LStrip(Tail(s)) ELSE s

RECURSIVE RStrip(_)
RStrip(s) ==
    IF s # <<>> /\ s[Len(s)] \in Space THEN RStrip(SubSeq(s, 1, Len(s) - 1)) ELSE s

\* str.strip()
Strip(s) == RStrip(LStrip(s))

\* sep.join(parts)
RECURSIVE Join(_, _)
Join(parts, sep) ==
    IF parts = <<>> THEN <<>>
    ELSE IF Len(parts) = 1 THEN parts[1]
    ELSE parts[1] \o sep \o Join(Tail(parts), sep)

\* the concatenation of a sequence of sequences
RECURSIVE Flatten(_)
Flatten(ss) == IF ss = <<>> THEN <<>> ELSE Head(ss) \o Flatten(Tail(ss))

RECURSIVE SumSeq(_)
SumSeq(ns) == IF ns = <<>> THEN 0 ELSE Head(ns) + SumSeq(Tail(ns))

\* [f(x) for x in xs if keep(x)] for f = strip and keep = non-blank
StripNonBlank(parts) ==
    LET kept == SelectSeq(parts, LAMBDA p : ~IsBlank(p))
    IN  [i \in 1..Len(kept) |-> Strip(kept[i])]

\* the first index >= i of s that holds no whitespace (Len(s) + 1 if none)
RECURSIVE SkipSpace(_, _)
SkipSpace(s, i) ==
    IF i <= Len(s) /\ s[i] \in Space THEN SkipSpace(s, i + 1) ELSE i

\* re.split(r"(?<=[.!?])\s+", s): a separator is a maximal run of whitespace
\* that directly follows one of . ! ?
RECURSIVE ReSplitLatin(_, _, _)
ReSplitLatin(s, i, cur) ==
    IF i > Len(s) THEN <<cur>>
    ELSE IF s[i] \in Space /\ i > 1 /\ s[i - 1] \in LatinEnd
         THEN <<cur>> \o ReSplitLatin(s, SkipSpace(s, i), <<>>)
         ELSE ReSplitLatin(s, i + 1, Append(cur, s[i]))

\* re.split on a set of single characters, and str.split(sep) for one character
RECURSIVE SplitOn(_, _, _, _)
SplitOn(s, seps, i, cur) ==
    IF i > Len(s) THEN <<cur>>
    ELSE IF s[i] \in seps
         THEN <<cur>> \o SplitOn(s, seps, i + 1, <<>>)
         ELSE SplitOn(s, seps, i + 1, Append(cur, s[i]))

\* str.split(): the whitespace-separated words
Words(s) == SelectSeq(SplitOn(s, Space, 1, <<>>), LAMBDA w : w # <<>>)

(***************************************************************************)
(* Sentence splitters.                                                     *)
(***************************************************************************)
\* utils/summarize.py
_split_sentences(text) ==
    SelectSeq(ReSplitLatin(Strip(text), 1, <<>>), LAMBDA p : ~IsBlank(p))

\* utils/enhance_summarize.py
enhance_split_sentences(text) ==
    IF text = <<>> \/ IsBlank(text) THEN <<>>
    ELSE StripNonBlank(ReSplitLatin(Strip(text), 1, <<>>))

\* a split that leaves each full-width mark at the end of its sentence
RECURSIVE SplitAfter(_, _, _, _)
SplitAfter(s, seps, i, cur) ==
    IF i > Len(s) THEN <<cur>>
    ELSE IF s[i] \in seps
         THEN <<Append(cur, s[i])>> \o SplitAfter(s, seps, i + 1, <<>>)
         ELSE SplitAfter(s, seps, i + 1, Append(cur, s[i]))

split_chinese_keeping_marks(text) ==
    IF text = <<>> \/ IsBlank(text) THEN <<>>
    ELSE StripNonBlank(SplitAfter(Strip(text), CjkEnd, 1, <<>>))

\* utils/chinese_summarize.py
_split_chinese_sentences(text) ==
    IF text = <<>> \/ IsBlank(text) THEN <<>>
    ELSE StripNonBlank(SplitOn(Strip(text), CjkEnd, 1, <<>>))

(***************************************************************************)
(* The tokenizer is a collaborator; three stand-ins are modelled.          *)
(*   "chars"   one id per character, decode gives the characters back      *)
(*   "letters" one id per character that is neither whitespace nor a       *)
(*             sentence mark (the others are not in its vocabulary)        *)
(*   "raises"  encode raises                                               *)
(***************************************************************************)
Tokenizers == {"chars", "letters", "raises"}

Encode(tok, text) ==
    IF tok = "chars" THEN text
    ELSE SelectSeq(text, LAMBDA c : c \notin Space \cup LatinEnd \cup CjkEnd)

Decode(tok, ids) == ids

(***************************************************************************)
(* Sentence-aware packing.  Pack is the loop shared by _chunk_by_tokens    *)
(* and the fallback of _chunk_text: lens[i] is the length of sents[i] and  *)
(* limit the budget, in the same unit.                                     *)
(***************************************************************************)
RECURSIVE Pack(_, _, _, _, _, _, _)
Pack(sents, lens, limit, i, chunks, current, cur_len) ==
    IF i > Len(sents)
    THEN IF current # <<>> THEN Append(chunks, current) ELSE chunks
    ELSE IF cur_len + lens[i] > limit /\ current # <<>>
         THEN Pack(sents, lens, limit, i + 1,
                   Append(chunks, current), <<sents[i]>>, lens[i])
         ELSE Pack(sents, lens, limit, i + 1,
                   chunks, Append(current, sents[i]), cur_len + lens[i])

\* a packing that compares the sentence alone with the budget
RECURSIVE PackNoRunningTotal(_, _, _, _, _, _)
PackNoRunningTotal(sents, lens, limit, i, chunks, current) ==
    IF i > Len(sents)
    THEN IF current # <<>> THEN Append(chunks, current) ELSE chunks
    ELSE IF lens[i] > limit /\ current # <<>>
         THEN PackNoRunningTotal(sents, lens, limit, i + 1,
                                 Append(chunks, current), <<sents[i]>>)
         ELSE PackNoRunningTotal(sents, lens, limit, i + 1,
                                 chunks, Append(current, sents[i]))

\* a packing that starts the new chunk empty, losing the sentence that did
\* not fit
RECURSIVE PackLosing(_, _, _, _, _, _, _)
PackLosing(sents, lens, limit, i, chunks, current, cur_len) ==
    IF i > Len(sents)
    THEN IF current # <<>> THEN Append(chunks, current) ELSE chunks
    ELSE IF cur_len + lens[i] > limit /\ current # <<>>
         THEN PackLosing(sents, lens, limit, i + 1,
                         Append(chunks, current), <<>>, 0)
         ELSE PackLosing(sents, lens, limit, i + 1,
                         chunks, Append(current, sents[i]), cur_len + lens[i])

\* len(_tokenizer.encode(s, add_special_tokens=False))
TokLen(tok, s) == Len(Encode(tok, s))

SentenceLens(tok, sents) == [i \in 1..Len(sents) |-> TokLen(tok, sents[i])]

\* utils/summarize.py _chunk_by_tokens: the sentence list of each chunk
chunk_by_tokens_budget_mutant(text, max_tokens, tok) ==
    LET sents == _split_sentences(text)
    IN  PackNoRunningTotal(sents, SentenceLens(tok, sents), max_tokens, 1, <<>>, <<>>)

chunk_by_tokens_lossy_mutant(text, max_tokens, tok) ==
    LET sents == _split_sentences(text)
    IN  PackLosing(sents, SentenceLens(tok, sents), max_tokens, 1, <<>>, <<>>, 0)

chunk_by_tokens_groups(text, max_tokens, tok) ==
    LET sents == _split_sentences(text)
    IN  Pack(sents, SentenceLens(tok, sents), max_tokens, 1, <<>>, <<>>, 0)

JoinGroups(groups) == [k \in 1..Len(groups) |-> Join(groups[k], <<" ">>)]

\* utils/summarize.py _chunk_by_tokens
_chunk_by_tokens(text, max_tokens, tok) ==
    StripNonBlank(JoinGroups(chunk_by_tokens_groups(text, max_tokens, tok)))

(***************************************************************************)
(* The fallback of _chunk_text estimates lengths in Python floats.  A      *)
(* float (an IEEE 754 double) of value 0 or of value in [1, 4096) is a     *)
(* multiple of 2^-52: it is held as that count, a number below 2^64        *)
(* written in four digits of base 2^16, the lowest first.                  *)
(***************************************************************************)
RECURSIVE Pow2(_)
Pow2(e) == IF e = 0 THEN 1 ELSE 2 * Pow2(e - 1)

LIMB == Pow2(16)

\* the double nearest to 1.3: 0x14CCCCCCCCCCCD * 2^-52
FLOAT_1_3 == <<52429, 52428, 52428, 20>>

FloatZero == <<0, 0, 0, 0>>

\* float(n) of an int 0 <= n < 4096
FloatOfInt(n) == <<0, 0, 0, 16 * n>>

\* a + b of two counts, exact
BigAdd(a, b) ==
    LET s1 == a[1] + b[1]
        s2 == a[2] + b[2] + s1 \div LIMB
        s3 == a[3] + b[3] + s2 \div LIMB
        s4 == a[4] + b[4] + s3 \div LIMB
    IN  <<s1 % LIMB, s2 % LIMB, s3 % LIMB, s4>>

\* n * a of a count and an int 0 <= n < 2048, exact
BigScale(n, a) ==
    LET s1 == n * a[1]
        s2 == n * a[2] + s1 \div LIMB
        s3 == n * a[3] + s2 \div LIMB
        s4 == n * a[4] + s3 \div LIMB
    IN  <<s1 % LIMB, s2 % LIMB, s3 % LIMB, s4>>

\* a > b
BigGreater(a, b) ==
    \E k \in 1..4 : a[k] > b[k] /\ \A j \in (k + 1)..4 : a[j] = b[j]

\* the exponent of a count of at least 2^52, from its highest digit: the e
\* with 2^(52+e) <= count < 2^(53+e)
RECURSIVE Exponent(_)
Exponent(top) == IF top < 32 THEN 0 ELSE 1 + Exponent(top \div 2)

\* the double nearest to an exact count (0 or at least 2^52): the count is
\* rounded to a multiple of 2^e, a tie to the even multiple
RoundToDouble(a) ==
    IF a[4] < 16 THEN a
    ELSE LET e    == Exponent(a[4])
             unit == Pow2(e)
             r    == a[1] % unit
             odd  == (a[1] \div unit) % 2 = 1
             up   == 2 * r > unit \/ (2 * r = unit /\ e > 0 /\ odd)
         IN  BigAdd(<<a[1] - r, a[2], a[3], a[4]>>,
                    <<IF up THEN unit ELSE 0, 0, 0, 0>>)

\* x + y of two floats
FloatAdd(x, y) == RoundToDouble(BigAdd(x, y))

\* n * 1.3 of an int and the float 1.3
TimesOnePointThree(n) == RoundToDouble(BigScale(n, FLOAT_1_3))

\* x > n of a float and an int (Python compares the exact values)
FloatGreaterInt(x, n) == BigGreater(x, FloatOfInt(n))

\* token_length = len(sentence.split()) * 1.3
EstimateTokens(s) == TimesOnePointThree(Len(Words(s)))

EstimateLens(sents) == [i \in 1..Len(sents) |-> EstimateTokens(sents[i])]

\* current_length after the sentences of one chunk: the float sum from the
\* left, as long as it is in the range of values held
RECURSIVE FloatSumFrom(_, _, _)
FloatSumFrom(xs, i, acc) ==
    IF i > Len(xs) THEN acc
    ELSE LET next == FloatAdd(acc, xs[i])
         IN  IF next[4] < LIMB THEN FloatSumFrom(xs, i + 1, next) ELSE next

FloatSum(xs) == FloatSumFrom(xs, 1, FloatZero)

\* the loop of the fallback of _chunk_text, lines 96-115
RECURSIVE PackEstimated(_, _, _, _, _, _, _)
PackEstimated(sents, lens, max_tokens, i, chunks, current, cur_len) ==
    IF i > Len(sents)
    THEN IF current # <<>> THEN Append(chunks, current) ELSE chunks
    ELSE IF FloatGreaterInt(FloatAdd(cur_len, lens[i]), max_tokens) /\ current # <<>>
         THEN PackEstimated(sents, lens, max_tokens, i + 1,
                            Append(chunks, current), <<sents[i]>>, lens[i])
         ELSE PackEstimated(sents, lens, max_tokens, i + 1,
                            chunks, Append(current, sents[i]),
                            FloatAdd(cur_len, lens[i]))

\* utils/enhance_summarize.py _chunk_text without a tokenizer: the sentence
\* list of each chunk
chunk_text_groups(text, max_tokens) ==
    LET sents == enhance_split_sentences(text)
    IN  PackEstimated(sents, EstimateLens(sents), max_tokens, 1, <<>>, <<>>, FloatZero)

(***************************************************************************)
(* Raw token-window slicing, utils/performance.py optimize_text_chunking.  *)
(***************************************************************************)
\* token_ids[i:i + max_tokens] for i in range(0, len(token_ids), max_tokens)
token_windows_short_mutant(token_ids, max_tokens) ==
    LET n == Len(token_ids)
        k == (n + max_tokens - 1) \div max_tokens
    IN  [w \in 1..k |->
            SubSeq(token_ids, (w - 1) * max_tokens + 1,
                   IF w * max_tokens - 1 < n THEN w * max_tokens - 1 ELSE n)]

token_windows_wide_mutant(token_ids, max_tokens) ==
    LET n == Len(token_ids)
        k == (n + max_tokens - 1) \div max_tokens
    IN  [w \in 1..k |->
            SubSeq(token_ids, (w - 1) * max_tokens + 1,
                   IF w * max_tokens + 1 < n THEN w * max_tokens + 1 ELSE n)]

token_windows(token_ids, max_tokens) ==
    LET n == Len(token_ids)
        k == (n + max_tokens - 1) \div max_tokens
    IN  [w \in 1..k |->
            SubSeq(token_ids, (w - 1) * max_tokens + 1,
                   IF w * max_tokens < n THEN w * max_tokens ELSE n)]

\* the except branch: word-based chunks of at most max_tokens * 4 characters
RECURSIVE WordPack(_, _, _, _, _, _)
WordPack(words, limit, i, chunks, current, cur_len) ==
    IF i > Len(words)
    THEN IF current # <<>> THEN Append(chunks, Join(current, <<" ">>)) ELSE chunks
    ELSE LET word_length == Len(words[i]) + 1
         IN  IF cur_len + word_length > limit
             THEN IF current # <<>>
                  THEN WordPack(words, limit, i + 1,
                                Append(chunks, Join(current, <<" ">>)),
                                <<words[i]>>, word_length)
                  ELSE WordPack(words, limit, i + 1,
                                Append(chunks, words[i]), current, cur_len)
             ELSE WordPack(words, limit, i + 1,
                           chunks, Append(current, words[i]), cur_len + word_length)

\* a word-based packing that loses a word longer than the limit
RECURSIVE WordPackDropping(_, _, _, _, _, _)
WordPackDropping(words, limit, i, chunks, current, cur_len) ==
    IF i > Len(words)
    THEN IF current # <<>> THEN Append(chunks, Join(current, <<" ">>)) ELSE chunks
    ELSE LET word_length == Len(words[i]) + 1
         IN  IF cur_len + word_length > limit
             THEN IF current # <<>>
                  THEN WordPackDropping(words, limit, i + 1,
                                        Append(chunks, Join(current, <<" ">>)),
                                        <<words[i]>>, word_length)
                  ELSE WordPackDropping(words, limit, i + 1, chunks, current, cur_len)
             ELSE WordPackDropping(words, limit, i + 1,
                                   chunks, Append(current, words[i]), cur_len + word_length)

word_chunks_dropping(text, max_tokens) ==
    WordPackDropping(Words(text), max_tokens * 4, 1, <<>>, <<>>, 0)

\* the except branch of optimize_text_chunking
word_chunks(text, max_tokens) ==
    WordPack(Words(text), max_tokens * 4, 1, <<>>, <<>>, 0)

\* the windows optimize_text_chunking slices (none when it returns early or
\* falls back)
optimize_windows(text, max_tokens, tok) ==
    IF text = <<>> \/ IsBlank(text) \/ tok = "raises" THEN <<>>
    ELSE token_windows(Encode(tok, text), max_tokens)

optimize_text_chunking(text, max_tokens, tok) ==
    IF text = <<>> \/ IsBlank(text) THEN <<>>
    ELSE IF tok = "raises"
         THEN word_chunks(text, max_tokens)
         ELSE LET wins == optimize_windows(text, max_tokens, tok)
              IN  StripNonBlank([w \in 1..Len(wins) |-> Decode(tok, wins[w])])

\* optimize_text_chunking with a tokenizer whose decode raises: decode is
\* reached when the text is not blank and has a token id
optimize_text_chunking_decode_raises(text, max_tokens, tok) ==
    IF text = <<>> \/ IsBlank(text) THEN <<>>
    ELSE IF Encode(tok, text) = <<>> THEN <<>>
    ELSE word_chunks(text, max_tokens)

\* utils/enhance_summarize.py _chunk_text(text, max_tokens) with the module's
\* tokenizer tok ("none" while it is not loaded)
enhance_chunk_text(text, max_tokens, tok) ==
    IF text = <<>> \/ IsBlank(text) THEN <<>>
    ELSE IF tok # "none" THEN optimize_text_chunking(text, max_tokens, tok)
    ELSE JoinGroups(chunk_text_groups(text, max_tokens))

(***************************************************************************)
(* The chunkers applied to drawn inputs.                                   *)
(***************************************************************************)
Alphabet == {"a", ".", " "}

Texts(n) == UNION {[1..k -> Alphabet] : k \in 0..n}

\* the parts of the state a specification does not use stay as they are here
ChunkIdle ==
    /\ ck_text = <<>> /\ ck_max = 1 /\ ck_tok = "chars" /\ ck_op = "none"
    /\ ck_groups = <<>> /\ ck_windows = <<>> /\ ck_out = <<>>

PoolIdle ==
    /\ pl_pc = "start" /\ pl_n = 0 /\ pl_future = <<>> /\ pl_result = <<>>
    /\ pl_calls = <<>> /\ pl_seen = {} /\ pl_partials = <<>> /\ pl_combined = <<>>

NoHandle == [model |-> "None", by |-> 0]

CacheIdle ==
    /\ mc_max_size = 1 /\ mc_ttl = 1 /\ mc_now = 0
    /\ mc_cache = <<>> /\ mc_access = <<>>
    /\ th_pc = <<>> /\ th_model = <<>> /\ th_loader = <<>>
    /\ th_value = <<>> /\ th_tok = <<>> /\ th_sum = <<>>

\* no token length was measured (a length is >= 0, -1 stands for a raise)
NotMeasured == -2

PipeIdle ==
    /\ p_pipeline = "fast" /\ p_text = <<>> /\ p_max_sentences = 1
    /\ p_model_name = "" /\ p_stage = "VALIDATE" /\ p_trace = <<>>
    /\ p_chunks = <<>> /\ p_done = {} /\ p_calls = <<>> /\ p_partials = <<>>
    /\ p_reduce_calls = 0 /\ p_combined = <<>> /\ p_output = <<>>
    /\ p_error = <<>>
    /\ p_loads = 0 /\ p_chunk_encode = "none" /\ p_measured = NotMeasured
    /\ p_passes = 0 /\ p_reduce_outs = <<>>

ChunkInit ==
    /\ PoolIdle /\ CacheIdle /\ PipeIdle
    /\ ck_text \in Texts(MaxTextLen)
    /\ ck_max \in 1..MaxBudget
    /\ ck_tok \in Tokenizers
    /\ ck_op = "none"
    /\ ck_groups = <<>>
    /\ ck_windows = <<>>
    /\ ck_out = <<>>

ChunkByTokens ==
    /\ ck_op = "none"
    /\ ck_tok # "raises"
    /\ ck_op' = "chunk_by_tokens"
    /\ ck_groups' = chunk_by_tokens_groups(ck_text, ck_max, ck_tok)
    /\ ck_out' = _chunk_by_tokens(ck_text, ck_max, ck_tok)
    /\ UNCHANGED <<ck_text, ck_max, ck_tok, ck_windows, poolVars, cacheVars, pipeVars>>

ChunkTextFallback ==
    /\ ck_op = "none"
    /\ ck_op' = "chunk_text"
    /\ ck_groups' = IF ck_text = <<>> \/ IsBlank(ck_text) THEN <<>>
                    ELSE chunk_text_groups(ck_text, ck_max)
    /\ ck_out' = enhance_chunk_text(ck_text, ck_max, "none")
    /\ UNCHANGED <<ck_text, ck_max, ck_tok, ck_windows, poolVars, cacheVars, pipeVars>>

OptimizeTextChunking ==
    /\ ck_op = "none"
    /\ ck_op' = "optimize"
    /\ ck_windows' = optimize_windows(ck_text, ck_max, ck_tok)
    /\ ck_out' = optimize_text_chunking(ck_text, ck_max, ck_tok)
    /\ UNCHANGED <<ck_text, ck_max, ck_tok, ck_groups, poolVars, cacheVars, pipeVars>>

\* optimize_text_chunking where tokenizer.decode raises
OptimizeDecodeRaises ==
    /\ ck_op = "none"
    /\ ck_tok # "raises"
    /\ ck_op' = "optimize_decode_raises"
    /\ ck_out' = optimize_text_chunking_decode_raises(ck_text, ck_max, ck_tok)
    /\ UNCHANGED <<ck_text, ck_max, ck_tok, ck_groups, ck_windows,
                   poolVars, cacheVars, pipeVars>>

ChunkNext ==
    \/ ChunkByTokens
    \/ ChunkTextFallback
    \/ OptimizeTextChunking
    \/ OptimizeDecodeRaises

SpecChunk == ChunkInit /\ [][ChunkNext]_vars

(***************************************************************************)
(* The sentence splitters called on a text.                                *)
(***************************************************************************)
SplitAlphabet == {"a", ".", "?", " ", "\n", "U3002", "UFF01"}

SplitTexts == UNION {[1..n -> SplitAlphabet] : n \in 0..MaxSplitLen}

SplitInit ==
    /\ ck_text \in SplitTexts
    /\ ck_max = 1
    /\ ck_tok = "chars"
    /\ ck_op = "none"
    /\ ck_groups = <<>>
    /\ ck_windows = <<>>
    /\ ck_out = <<>>
    /\ PoolIdle /\ CacheIdle /\ PipeIdle

\* _split_sentences(text) of utils/enhance_summarize.py
SplitSentences ==
    /\ ck_op = "none"
    /\ ck_op' = "split_sentences"
    /\ ck_out' = enhance_split_sentences(ck_text)
    /\ UNCHANGED <<ck_text, ck_max, ck_tok, ck_groups, ck_windows,
                   poolVars, cacheVars, pipeVars>>

\* _split_chinese_sentences(text)
SplitChineseSentences ==
    /\ ck_op = "none"
    /\ ck_op' = "split_chinese_sentences"
    /\ ck_out' = _split_chinese_sentences(ck_text)
    /\ UNCHANGED <<ck_text, ck_max, ck_tok, ck_groups, ck_windows,
                   poolVars, cacheVars, pipeVars>>

SplitNext == SplitSentences \/ SplitChineseSentences

SpecSplit == SplitInit /\ [][SplitNext]_vars

(***************************************************************************)
(* The first pass of fast_summarize_text: one future per chunk on a        *)
(* ThreadPoolExecutor of min(4, len(chunks)) workers, the results read in  *)
(* the order as_completed yields them.                                     *)
(***************************************************************************)
POOL_MAX_WORKERS == 4

max_workers_uncapped(n) == n

\* an executor without a worker
max_workers_none(n) == 0

max_workers(n) == IF n < POOL_MAX_WORKERS THEN n ELSE POOL_MAX_WORKERS

\* what _process_chunk_parallel returns: a summary, or a failure and its reason
ChunkResults ==
    {"summary", "too_short", "empty_summary", "no_summary", "invalid_result", "error"}

Running == {i \in 1..pl_n : pl_future[i] = "running"}
Queued  == {i \in 1..pl_n : pl_future[i] = "queued"}

PoolInit ==
    /\ ChunkIdle /\ CacheIdle /\ PipeIdle
    /\ pl_pc = "start"
    /\ pl_n \in 1..MaxPoolChunks
    /\ pl_future = [i \in 1..pl_n |-> "none"]
    /\ pl_result = [i \in 1..pl_n |-> "none"]
    /\ pl_calls = [i \in 1..pl_n |-> 0]
    /\ pl_seen = {}
    /\ pl_partials = <<>>
    /\ pl_combined = <<>>

\* the futures not submitted yet
Unsubmitted == {i \in 1..pl_n : pl_future[i] = "none"}

\* the calling thread is in the comprehension of executor.submit calls or
\* in the as_completed loop: the executor exists and its workers run
PoolOpen == pl_pc \in {"start", "collecting"}

\* one executor.submit, for the next chunk in chunk order; after the last
\* one the calling thread goes on to as_completed
PoolSubmit ==
    /\ pl_pc = "start"
    /\ Unsubmitted # {}
    /\ LET i == CHOOSE k \in Unsubmitted : \A j \in Unsubmitted : k <= j
       IN  /\ pl_future' = [pl_future EXCEPT ![i] = "queued"]
           /\ pl_pc' = IF i = pl_n THEN "collecting" ELSE "start"
    /\ UNCHANGED <<pl_n, pl_result, pl_calls, pl_seen, pl_partials, pl_combined,
                   chunkVars, cacheVars, pipeVars>>

\* an idle worker takes the oldest queued work item
WorkerStart(i) ==
    /\ PoolOpen
    /\ i \in Queued
    /\ \A j \in Queued : i <= j
    /\ Cardinality(Running) < max_workers(pl_n)
    /\ pl_future' = [pl_future EXCEPT ![i] = "running"]
    /\ UNCHANGED <<pl_pc, pl_n, pl_result, pl_calls, pl_seen, pl_partials,
                   pl_combined, chunkVars, cacheVars, pipeVars>>

\* a worker that queues the chunk again when the summarizer raised
worker_finish_retrying(i, r) ==
    /\ PoolOpen
    /\ i \in Running
    /\ pl_future' = [pl_future EXCEPT ![i] = IF r = "error" THEN "queued" ELSE "done"]
    /\ pl_result' = [pl_result EXCEPT ![i] = IF r = "error" THEN @ ELSE r]
    /\ pl_calls' = [pl_calls EXCEPT ![i] = IF r = "too_short" THEN @ ELSE @ + 1]
    /\ UNCHANGED <<pl_pc, pl_n, pl_seen, pl_partials, pl_combined, chunkVars, cacheVars, pipeVars>>

\* _process_chunk_parallel returns r for chunk i; a chunk of fewer than 10
\* characters returns before the summarizer is called
WorkerFinish(i, r) ==
    /\ PoolOpen
    /\ i \in Running
    /\ pl_future' = [pl_future EXCEPT ![i] = "done"]
    /\ pl_result' = [pl_result EXCEPT ![i] = r]
    /\ pl_calls' = [pl_calls EXCEPT ![i] = IF r = "too_short" THEN @ ELSE @ + 1]
    /\ UNCHANGED <<pl_pc, pl_n, pl_seen, pl_partials, pl_combined, chunkVars, cacheVars, pipeVars>>

\* as_completed yields a finished future; its summary is appended to partials
append_partial(partials, i, result) ==
    IF result = "summary" THEN Append(partials, i) ELSE partials

PoolCollect(i) ==
    /\ pl_pc = "collecting"
    /\ i \in 1..pl_n
    /\ pl_future[i] = "done"
    /\ i \notin pl_seen
    /\ pl_seen' = pl_seen \cup {i}
    /\ pl_partials' = append_partial(pl_partials, i, pl_result[i])
    /\ UNCHANGED <<pl_pc, pl_n, pl_future, pl_result, pl_calls, pl_combined,
                   chunkVars, cacheVars, pipeVars>>

\* every future was yielded: the pool is shut down and the partials joined
PoolCombine ==
    /\ pl_pc = "collecting"
    /\ pl_seen = 1..pl_n
    /\ IF pl_partials = <<>>
       THEN pl_pc' = "failed" /\ pl_combined' = <<>>
       ELSE pl_pc' = "combined" /\ pl_combined' = pl_partials
    /\ UNCHANGED <<pl_n, pl_future, pl_result, pl_calls, pl_seen, pl_partials,
                   chunkVars, cacheVars, pipeVars>>

PoolNext ==
    \/ PoolSubmit
    \/ \E i \in 1..MaxPoolChunks : WorkerStart(i)
    \/ \E i \in 1..MaxPoolChunks, r \in ChunkResults : WorkerFinish(i, r)
    \/ \E i \in 1..MaxPoolChunks : PoolCollect(i)
    \/ PoolCombine

SpecPool == PoolInit /\ [][PoolNext]_vars

(***************************************************************************)
(* utils/performance.py: ModelCache and cached_model_loader, and the two   *)
(* loaders of utils/fast_summarize.py that are decorated with it.          *)
(***************************************************************************)
\* dict operations on _cache (a function whose domain is the keys held)
DictPut(d, key, value) ==
    [k \in DOMAIN d \cup {key} |-> IF k = key THEN value ELSE d[k]]

DictPop(d, key) == [k \in DOMAIN d \ {key} |-> d[k]]

\* dict operations on _access_times (a sequence, to keep the insertion order)
AccessKeys(acc) == {acc[i].key : i \in 1..Len(acc)}

AccessPut(acc, key, t) ==
    IF key \in AccessKeys(acc)
    THEN [i \in 1..Len(acc) |-> IF acc[i].key = key THEN [key |-> key, t |-> t] ELSE acc[i]]
    ELSE Append(acc, [key |-> key, t |-> t])

AccessPop(acc, key) == SelectSeq(acc, LAMBDA e : e.key # key)

\* min(self._access_times.keys(), key=...): the first key of the least time
OldestKey(acc) ==
    LET i == CHOOSE a \in 1..Len(acc) :
                /\ \A b \in 1..Len(acc) : acc[a].t <= acc[b].t
                /\ \A b \in 1..(a - 1) : acc[b].t # acc[a].t
    IN  acc[i].key

\* the branch of ModelCache.get the call takes; now is the reading of the
\* clock in the expiry test
get_branch(cache, key, now, ttl) ==
    IF key \notin DOMAIN cache THEN "get_absent"
    ELSE IF now - cache[key].ts > ttl THEN "get_expired"
    ELSE "get_hit"

\* a get that does not look at the age of the entry
cache_get_ignoring_ttl(cache, access, key, now, later, ttl) ==
    IF key \notin DOMAIN cache
    THEN [cache |-> cache, access |-> access, ret |-> NoHandle]
    ELSE [cache |-> cache, access |-> AccessPut(access, key, later),
          ret |-> cache[key].item]

\* ModelCache.get: [cache, access, ret].  The method reads the clock twice:
\* now in the expiry test, later for the access time of a hit.
CacheGet(cache, access, key, now, later, ttl) ==
    IF key \notin DOMAIN cache
    THEN [cache |-> cache, access |-> access, ret |-> NoHandle]
    ELSE IF now - cache[key].ts > ttl
         THEN [cache |-> DictPop(cache, key), access |-> AccessPop(access, key),
               ret |-> NoHandle]
         ELSE [cache |-> cache, access |-> AccessPut(access, key, later),
               ret |-> cache[key].item]

\* an eviction of the most recently used key
NewestKey(acc) ==
    LET i == CHOOSE a \in 1..Len(acc) :
                /\ \A b \in 1..Len(acc) : acc[a].t >= acc[b].t
                /\ \A b \in (a + 1)..Len(acc) : acc[b].t # acc[a].t
    IN  acc[i].key

evict_newest(cache, access) ==
    IF access = <<>> THEN [cache |-> cache, access |-> access]
    ELSE [cache |-> DictPop(cache, NewestKey(access)),
          access |-> AccessPop(access, NewestKey(access))]

\* ModelCache._evict_oldest: [cache, access]
EvictOldest(cache, access) ==
    IF access = <<>> THEN [cache |-> cache, access |-> access]
    ELSE [cache |-> DictPop(cache, OldestKey(access)),
          access |-> AccessPop(access, OldestKey(access))]

\* a set that never evicts
cache_set_without_eviction(cache, access, key, value, now, later, max_size) ==
    [cache |-> DictPut(cache, key, [item |-> value, ts |-> now]),
     access |-> AccessPut(access, key, later)]

cache_set_if_absent(cache, access, key, value, now, later, max_size) ==
    IF key \in DOMAIN cache
    THEN [cache |-> cache, access |-> access]
    ELSE [cache |-> DictPut(cache, key, [item |-> value, ts |-> now]),
          access |-> AccessPut(access, key, later)]

\* ModelCache.set: [cache, access].  The method reads the clock twice: now
\* for the timestamp of the entry, later for its access time.
CacheSet(cache, access, key, value, now, later, max_size) ==
    LET e == IF Cardinality(DOMAIN cache) >= max_size
             THEN EvictOldest(cache, access)
             ELSE [cache |-> cache, access |-> access]
    IN  [cache |-> DictPut(e.cache, key, [item |-> value, ts |-> now]),
         access |-> AccessPut(e.access, key, later)]

\* ModelCache.cleanup_expired: [cache, access]
ExpiredKeys(cache, now, ttl) == {k \in DOMAIN cache : now - cache[k].ts > ttl}

CleanupExpired(cache, access, now, ttl) ==
    [cache |-> [k \in DOMAIN cache \ ExpiredKeys(cache, now, ttl) |-> cache[k]],
     access |-> SelectSeq(access, LAMBDA e : e.key \notin ExpiredKeys(cache, now, ttl))]

Threads    == {1, 2}
ModelNames == {"A", "B"}

\* the cache key cached_model_loader computes for a loader called with
\* model_name: cache_key_func takes no argument
fast_tokenizer_key(model_name)  == "fast_tokenizer"
fast_summarizer_key(model_name) == "fast_summarizer"

LoaderInit ==
    /\ ChunkIdle /\ PoolIdle /\ PipeIdle
    /\ mc_max_size \in 1..MaxCacheSize
    /\ mc_ttl \in 1..MaxTtl
    /\ mc_now = 0
    /\ mc_cache = <<>>
    /\ mc_access = <<>>
    /\ th_pc = [t \in Threads |-> "idle"]
    /\ th_model = [t \in Threads |-> "None"]
    /\ th_loader = [t \in Threads |-> "none"]
    /\ th_value = [t \in Threads |-> NoHandle]
    /\ th_tok = [t \in Threads |-> NoHandle]
    /\ th_sum = [t \in Threads |-> NoHandle]

\* fast_summarize_text(text, max_sentences, model_name) reaches
\* _load_tokenizer(model_name)
FastRequest(t, m) ==
    /\ th_pc[t] = "idle"
    /\ th_pc' = [th_pc EXCEPT ![t] = "get"]
    /\ th_model' = [th_model EXCEPT ![t] = m]
    /\ th_loader' = [th_loader EXCEPT ![t] = fast_tokenizer_key(m)]
    /\ UNCHANGED <<mc_max_size, mc_ttl, mc_now, mc_cache, mc_access,
                   th_value, th_tok, th_sum, chunkVars, poolVars, pipeVars>>

\* the loader returned handle h: the next loader is entered, or the request
\* has both handles
Returned(t, h) ==
    IF th_loader[t] = fast_tokenizer_key(th_model[t])
    THEN /\ th_tok' = [th_tok EXCEPT ![t] = h]
         /\ th_loader' = [th_loader EXCEPT ![t] = fast_summarizer_key(th_model[t])]
         /\ th_pc' = [th_pc EXCEPT ![t] = "get"]
         /\ UNCHANGED th_sum
    ELSE /\ th_sum' = [th_sum EXCEPT ![t] = h]
         /\ th_pc' = [th_pc EXCEPT ![t] = "ready"]
         /\ UNCHANGED <<th_tok, th_loader>>

\* wrapper: cached_model = model_cache.get(cache_key).  The expiry test reads
\* the clock as mc_now; a hit reads it again for the access time, and the
\* clock does not go back between the two readings.
LoaderGet(t) ==
    /\ th_pc[t] = "get"
    /\ \E later \in (IF get_branch(mc_cache, th_loader[t], mc_now, mc_ttl) = "get_hit"
                     THEN mc_now..MaxTime ELSE {mc_now}) :
          LET g == CacheGet(mc_cache, mc_access, th_loader[t], mc_now, later, mc_ttl)
          IN  /\ mc_cache' = g.cache
              /\ mc_access' = g.access
              /\ mc_now' = later
              /\ IF g.ret # NoHandle
                 THEN Returned(t, g.ret)
                 ELSE /\ th_pc' = [th_pc EXCEPT ![t] = "load"]
                      /\ UNCHANGED <<th_tok, th_sum, th_loader>>
    /\ UNCHANGED <<mc_max_size, mc_ttl, th_model, th_value,
                   chunkVars, poolVars, pipeVars>>

\* a wrapper that stores None under the key when the loader raises
loader_load_caching_failure(t, ok) ==
    /\ th_pc[t] = "load"
    /\ IF ok
       THEN /\ th_value' = [th_value EXCEPT ![t] = [model |-> th_model[t], by |-> t]]
            /\ th_pc' = [th_pc EXCEPT ![t] = "set"]
            /\ UNCHANGED <<mc_cache, mc_access>>
       ELSE /\ th_pc' = [th_pc EXCEPT ![t] = "failed"]
            /\ mc_cache' = DictPut(mc_cache, th_loader[t],
                                   [item |-> NoHandle, ts |-> mc_now])
            /\ mc_access' = AccessPut(mc_access, th_loader[t], mc_now)
            /\ UNCHANGED th_value
    /\ UNCHANGED <<mc_max_size, mc_ttl, mc_now,
                   th_model, th_loader, th_tok, th_sum, chunkVars, poolVars, pipeVars>>

\* wrapper: model = func(*args, **kwargs), which builds the handle of
\* model_name or raises
LoaderLoad(t, ok) ==
    /\ th_pc[t] = "load"
    /\ IF ok
       THEN /\ th_value' = [th_value EXCEPT ![t] = [model |-> th_model[t], by |-> t]]
            /\ th_pc' = [th_pc EXCEPT ![t] = "set"]
       ELSE /\ th_pc' = [th_pc EXCEPT ![t] = "failed"]
            /\ UNCHANGED th_value
    /\ UNCHANGED <<mc_max_size, mc_ttl, mc_now, mc_cache, mc_access,
                   th_model, th_loader, th_tok, th_sum, chunkVars, poolVars, pipeVars>>

\* wrapper: model_cache.set(cache_key, model); return model.  The timestamp
\* is the clock read as mc_now, the access time a second reading of it.
LoaderSet(t) ==
    /\ th_pc[t] = "set"
    /\ \E later \in mc_now..MaxTime :
          LET c == CacheSet(mc_cache, mc_access, th_loader[t], th_value[t],
                            mc_now, later, mc_max_size)
          IN  mc_cache' = c.cache /\ mc_access' = c.access /\ mc_now' = later
    /\ Returned(t, th_value[t])
    /\ UNCHANGED <<mc_max_size, mc_ttl, th_model, th_value,
                   chunkVars, poolVars, pipeVars>>

\* the request is over (it returned or raised); the thread may call again
RequestEnd(t) ==
    /\ th_pc[t] \in {"ready", "failed"}
    /\ th_pc' = [th_pc EXCEPT ![t] = "idle"]
    /\ th_model' = [th_model EXCEPT ![t] = "None"]
    /\ th_loader' = [th_loader EXCEPT ![t] = "none"]
    /\ th_value' = [th_value EXCEPT ![t] = NoHandle]
    /\ th_tok' = [th_tok EXCEPT ![t] = NoHandle]
    /\ th_sum' = [th_sum EXCEPT ![t] = NoHandle]
    /\ UNCHANGED <<mc_max_size, mc_ttl, mc_now, mc_cache, mc_access,
                   chunkVars, poolVars, pipeVars>>

\* time passes
Tick ==
    /\ mc_now < MaxTime
    /\ mc_now' = mc_now + 1
    /\ UNCHANGED <<mc_max_size, mc_ttl, mc_cache, mc_access, th_pc, th_model,
                   th_loader, th_value, th_tok, th_sum, chunkVars, poolVars, pipeVars>>

\* background_cleanup: model_cache.cleanup_expired()
BackgroundCleanup ==
    /\ ExpiredKeys(mc_cache, mc_now, mc_ttl) # {}
    /\ LET c == CleanupExpired(mc_cache, mc_access, mc_now, mc_ttl)
       IN  mc_cache' = c.cache /\ mc_access' = c.access
    /\ UNCHANGED <<mc_max_size, mc_ttl, mc_now, th_pc, th_model,
                   th_loader, th_value, th_tok, th_sum, chunkVars, poolVars, pipeVars>>

\* MemoryManager.cleanup_memory under memory pressure: model_cache.clear()
MemoryCleanup ==
    /\ mc_cache # <<>>
    /\ mc_cache' = <<>>
    /\ mc_access' = <<>>
    /\ UNCHANGED <<mc_max_size, mc_ttl, mc_now, th_pc, th_model,
                   th_loader, th_value, th_tok, th_sum, chunkVars, poolVars, pipeVars>>

LoaderNext ==
    \/ \E t \in Threads, m \in ModelNames : FastRequest(t, m)
    \/ \E t \in Threads : LoaderGet(t)
    \/ \E t \in Threads, ok \in BOOLEAN : LoaderLoad(t, ok)
    \/ \E t \in Threads : LoaderSet(t)
    \/ \E t \in Threads : RequestEnd(t)
    \/ Tick
    \/ BackgroundCleanup
    \/ MemoryCleanup

SpecLoader == LoaderInit /\ [][LoaderNext]_vars

(***************************************************************************)
(* utils/performance.py: the methods of a ModelCache called directly, by   *)
(* any thread and in any order.  Each method body runs under the cache's   *)
(* RLock, so a call is one step.  th_pc, th_loader and th_value of the     *)
(* calling thread record the branch the last call took, its key and what   *)
(* it returned.                                                            *)
(***************************************************************************)
CacheKeys == {"k1", "k2", "k3"}

\* the values stored: the handle of a model, built by the calling thread
CacheValue(t, m) == [model |-> m, by |-> t]

LastCall(t, branch, key, ret) ==
    /\ th_pc' = [u \in Threads |-> IF u = t THEN branch ELSE "idle"]
    /\ th_loader' = [u \in Threads |-> IF u = t THEN key ELSE "none"]
    /\ th_value' = [u \in Threads |-> IF u = t THEN ret ELSE NoHandle]
    /\ UNCHANGED <<th_model, th_tok, th_sum>>

\* model_cache.get(key)
CallGet(t, key) ==
    /\ \E later \in (IF get_branch(mc_cache, key, mc_now, mc_ttl) = "get_hit"
                     THEN mc_now..MaxTime ELSE {mc_now}) :
          LET g == CacheGet(mc_cache, mc_access, key, mc_now, later, mc_ttl)
          IN  /\ mc_cache' = g.cache
              /\ mc_access' = g.access
              /\ mc_now' = later
              /\ LastCall(t, get_branch(mc_cache, key, mc_now, mc_ttl), key, g.ret)
    /\ UNCHANGED <<mc_max_size, mc_ttl, chunkVars, poolVars, pipeVars>>

\* the branch of ModelCache.set the call takes
set_branch(cache, max_size) ==
    IF Cardinality(DOMAIN cache) >= max_size THEN "set_full" ELSE "set"

\* model_cache.set(key, value)
CallSet(t, key, m) ==
    /\ \E later \in mc_now..MaxTime :
          LET c == CacheSet(mc_cache, mc_access, key, CacheValue(t, m),
                            mc_now, later, mc_max_size)
          IN  mc_cache' = c.cache /\ mc_access' = c.access /\ mc_now' = later
    /\ LastCall(t, set_branch(mc_cache, mc_max_size), key, NoHandle)
    /\ UNCHANGED <<mc_max_size, mc_ttl, chunkVars, poolVars, pipeVars>>

\* model_cache.clear()
CallClear(t) ==
    /\ mc_cache' = <<>>
    /\ mc_access' = <<>>
    /\ LastCall(t, "clear", "none", NoHandle)
    /\ UNCHANGED <<mc_max_size, mc_ttl, mc_now, chunkVars, poolVars, pipeVars>>

\* model_cache.cleanup_expired()
CallCleanupExpired(t) ==
    /\ LET c == CleanupExpired(mc_cache, mc_access, mc_now, mc_ttl)
       IN  mc_cache' = c.cache /\ mc_access' = c.access
    /\ LastCall(t, "cleanup_expired", "none", NoHandle)
    /\ UNCHANGED <<mc_max_size, mc_ttl, mc_now, chunkVars, poolVars, pipeVars>>

CacheNext ==
    \/ \E t \in Threads, key \in CacheKeys : CallGet(t, key)
    \/ \E t \in Threads, key \in CacheKeys, m \in ModelNames : CallSet(t, key, m)
    \/ \E t \in Threads : CallClear(t)
    \/ \E t \in Threads : CallCleanupExpired(t)
    \/ Tick

SpecCache == LoaderInit /\ [][CacheNext]_vars

(***************************************************************************)
(* The three pipelines: fast_summarize_text, enhance_summarize_text and    *)
(* chinese_summarize_text.  The chunker, the summarization model and the   *)
(* tokenizer's measure of the combined summary are collaborators: what     *)
(* they return is drawn from small sets.                                   *)
(***************************************************************************)
Pipelines == {"fast", "enhanced", "chinese"}

MIN_TEXT_LENGTH     == 50
MAX_SENTENCES_LIMIT == 50
MIN_CHUNK_CHARS     == 10
MIN_SUMMARY_CHARS   == 10
FAST_MAX_TOKENS     == 900
ENHANCE_MAX_INPUT_TOKENS == 1024
CHINESE_MAX_TOKENS  == 800

Rep(c, n) == [i \in 1..n |-> c]

\* the texts a request is made with: empty, blank, 49 and 50 characters
\* between whitespace
TextInputs ==
    { <<>>,
      <<" ", "\n">>,
      <<" ">> \o Rep("a", MIN_TEXT_LENGTH - 1) \o <<"\n">>,
      <<" ">> \o Rep("a", MIN_TEXT_LENGTH) \o <<"\n">> }

MaxSentencesInputs ==
    {-1, 0, 1, 2, MAX_SENTENCES_LIMIT, MAX_SENTENCES_LIMIT + 1, MAX_SENTENCES_LIMIT + 2}

ModelNameInputs(p) == IF p = "fast" THEN {"", "A"} ELSE {"A"}

\* error messages
MsgEmpty      == "Input text is empty or contains only whitespace"
MsgTooShort   == "Input text is too short for meaningful summarization (minimum 50 characters)"
MsgSentences  == "max_sentences must be between 1 and 50"
MsgModelName  == "Model name is required"
MsgLoad       == "Failed to load model"
MsgComponents == "Failed to load model components"
MsgNoChunks   == "Text could not be processed into chunks"
MsgCombine    == "Failed to combine summaries"
MsgTooShortSummary == "Generated summary is too short or empty"
MsgLoaderRaised  == "(the loader's error)"
MsgEncodeRaised  == "(the tokenizer's error)"

NoSummariesMsg(p) ==
    IF p = "chinese" THEN "No summaries were generated from any Chinese chunks"
    ELSE "No summaries were generated from any chunks"

NoSentencesMsg(p) ==
    IF p = "chinese" THEN "No sentences found in Chinese summary"
    ELSE "No sentences found in combined summary"

\* the prefix the outer except clause puts before the message
Prefix(p) ==
    IF p = "fast" THEN "Summarization failed: "
    ELSE IF p = "enhanced" THEN "Enhanced summarization failed: "
    ELSE "Chinese summarization failed: "

\* fast_summarize_text, input validation: "ok" or the message raised
fast_validate_off_by_one(text, max_sentences, model_name) ==
    IF text = <<>> \/ IsBlank(text) THEN MsgEmpty
    ELSE IF Len(Strip(text)) < MIN_TEXT_LENGTH THEN MsgTooShort
    ELSE IF max_sentences < 1 \/ max_sentences >= MAX_SENTENCES_LIMIT THEN MsgSentences
    ELSE IF model_name = "" THEN MsgModelName
    ELSE "ok"

fast_validate_model_name_first(text, max_sentences, model_name) ==
    IF text = <<>> \/ IsBlank(text) THEN MsgEmpty
    ELSE IF Len(Strip(text)) < MIN_TEXT_LENGTH THEN MsgTooShort
    ELSE IF model_name = "" THEN MsgModelName
    ELSE IF max_sentences < 1 \/ max_sentences > MAX_SENTENCES_LIMIT THEN MsgSentences
    ELSE "ok"

fast_validate(text, max_sentences, model_name) ==
    IF text = <<>> \/ IsBlank(text) THEN MsgEmpty
    ELSE IF Len(Strip(text)) < MIN_TEXT_LENGTH THEN MsgTooShort
    ELSE IF max_sentences < 1 \/ max_sentences > MAX_SENTENCES_LIMIT THEN MsgSentences
    ELSE IF model_name = "" THEN MsgModelName
    ELSE "ok"

\* _validate_input of utils/enhance_summarize.py and utils/chinese_summarize.py
_validate_input(text, max_sentences) ==
    IF text = <<>> \/ IsBlank(text) THEN MsgEmpty
    ELSE IF Len(Strip(text)) < MIN_TEXT_LENGTH THEN MsgTooShort
    ELSE IF max_sentences < 1 \/ max_sentences > MAX_SENTENCES_LIMIT THEN MsgSentences
    ELSE "ok"

Validation(p, text, max_sentences, model_name) ==
    IF p = "fast" THEN fast_validate(text, max_sentences, model_name)
    ELSE _validate_input(text, max_sentences)

(***************************************************************************)
(* What the summarization model returns for one call.                      *)
(***************************************************************************)
\* "Stop! Go on. End."
FastSeveral ==
    <<"S", "t", "o", "p", "!", " ", "G", "o", " ", "o", "n", ".", " ", "E",
      "n", "d", ".">>
\* "Ok."
FastShort == <<"O", "k", ".">>
\* "One. Two!"
EnhSeveral == <<"O", "n", "e", ".", " ", "T", "w", "o", "!">>
\* "Solo"
EnhSingle == <<"S", "o", "l", "o">>
\* two Chinese sentences, U+7532 U+3002 U+4E59 U+FF01
ChiSeveral == <<"U7532", "U3002", "U4E59", "UFF01">>
\* one Chinese sentence without a mark, U+4E19
ChiSingle == <<"U4E19">>
\* a full-width full stop alone, U+3002
ChiMarkOnly == <<"U3002">>

BlankText == <<" ">>

SummaryTexts(p) ==
    IF p = "fast" THEN {FastSeveral, FastShort, BlankText}
    ELSE IF p = "enhanced" THEN {EnhSeveral, EnhSingle, BlankText}
    ELSE {ChiSeveral, ChiSingle, ChiMarkOnly, BlankText}

\* a call raises, returns a result without "summary_text" (or no result),
\* returns something that cannot be read as a result list (a number, or a
\* "summary_text" that is no string: "invalid"), or returns
\* [{"summary_text": text}]
Outcomes(p) ==
    {[kind |-> "raises", text |-> <<>>], [kind |-> "malformed", text |-> <<>>],
     [kind |-> "invalid", text |-> <<>>]}
    \cup {[kind |-> "text", text |-> t] : t \in SummaryTexts(p)}

\* the summary a first-pass call contributes: summary_text.strip() if the
\* result is well formed and the text not blank (<<>> is nothing)
chunk_summary(o) ==
    IF o.kind = "text" /\ ~IsBlank(o.text) THEN Strip(o.text) ELSE <<>>

\* the token budget of the second pass
Budget(p) ==
    IF p = "fast" THEN FAST_MAX_TOKENS
    ELSE IF p = "enhanced" THEN ENHANCE_MAX_INPUT_TOKENS
    ELSE CHINESE_MAX_TOKENS

\* len(tokenizer.encode(combined)): at the budget, one over it, or -1 when
\* encode raises
MeasureInputs(p) == {-1, Budget(p), Budget(p) + 1}

SeqsUpTo(S, n) == UNION {[1..k -> S] : k \in 0..n}

(***************************************************************************)
(* The stages.                                                             *)
(***************************************************************************)
Enter(stage) ==
    /\ p_stage' = stage
    /\ p_trace' = Append(p_trace, stage)

enter_last_only(stages) ==
    /\ p_stage' = stages[Len(stages)]
    /\ p_trace' = Append(p_trace, stages[Len(stages)])

\* the stages are entered one after the other, the last one is current
EnterVia(stages) ==
    /\ p_stage' = stages[Len(stages)]
    /\ p_trace' = p_trace \o stages

Fail(parts) ==
    /\ p_stage' = "FAILED"
    /\ p_error' = parts
    /\ UNCHANGED p_trace

PipeInit ==
    /\ ChunkIdle /\ PoolIdle /\ CacheIdle
    /\ p_pipeline \in Pipelines
    /\ p_text \in TextInputs
    /\ p_max_sentences \in MaxSentencesInputs
    /\ p_model_name \in ModelNameInputs(p_pipeline)
    /\ p_stage = "VALIDATE"
    /\ p_trace = <<"VALIDATE">>
    /\ p_chunks = <<>>
    /\ p_done = {}
    /\ p_calls = <<>>
    /\ p_partials = <<>>
    /\ p_reduce_calls = 0
    /\ p_combined = <<>>
    /\ p_output = <<>>
    /\ p_error = <<>>
    /\ p_loads = 0
    /\ p_chunk_encode = "none"
    /\ p_measured = NotMeasured
    /\ p_passes = 0
    /\ p_reduce_outs = <<>>

validate_after_loading ==
    /\ p_stage = "VALIDATE"
    /\ p_loads' = p_loads + 2
    /\ LET v == Validation(p_pipeline, p_text, p_max_sentences, p_model_name)
       IN  IF v = "ok"
           THEN Enter("LOAD_MODEL") /\ UNCHANGED p_error
           ELSE Fail(<<v>>)
    /\ UNCHANGED <<p_pipeline, p_text, p_max_sentences, p_model_name, p_chunks,
                   p_done, p_calls, p_partials, p_reduce_calls, p_combined,
                   p_output, p_chunk_encode, p_measured, p_passes,
                   p_reduce_outs, chunkVars, poolVars, cacheVars>>

\* input validation: the first failing check raises its ValueError
Validate ==
    /\ p_stage = "VALIDATE"
    /\ LET v == Validation(p_pipeline, p_text, p_max_sentences, p_model_name)
       IN  IF v = "ok"
           THEN Enter("LOAD_MODEL") /\ UNCHANGED p_error
           ELSE Fail(<<v>>)
    /\ UNCHANGED <<p_pipeline, p_text, p_max_sentences, p_model_name, p_chunks,
                   p_done, p_calls, p_partials, p_reduce_calls, p_combined,
                   p_output, p_loads, p_chunk_encode, p_measured, p_passes,
                   p_reduce_outs, chunkVars, poolVars, cacheVars>>

\* the tokenizer and the summarizer are obtained: both loaders return a
\* handle ("ok"), the tokenizer's or the summarizer's loader raises, or a
\* loader of the fast pipeline returns a falsy handle.  _initialize_models of
\* the enhanced and Chinese pipelines calls a loader only for a module global
\* that is None: both are set ("warm"), or an earlier request set _tokenizer
\* and failed in the summarizer's loader, which now returns ("tok_warm") or
\* raises again ("tok_warm_sum_raises")
LoadOutcomes(p) ==
    IF p = "fast" THEN {"ok", "tok_raises", "sum_raises", "falsy"}
    ELSE {"warm", "tok_warm", "tok_warm_sum_raises", "ok", "tok_raises", "sum_raises"}

\* the calls of the loaders in the request: the summarizer's is not reached
\* when the tokenizer's raises, and _initialize_models calls a loader only for
\* a global that is None.  _initialize_summarizer of the enhanced and Chinese
\* pipelines calls the tokenizer's loader itself before it builds the
\* pipeline; _load_summarizer of the fast pipeline does not.
loader_calls(p, r) ==
    IF r = "warm" THEN 0
    ELSE IF r = "tok_raises" THEN 1
    ELSE IF p = "fast" THEN 2
    ELSE IF r \in {"tok_warm", "tok_warm_sum_raises"} THEN 2
    ELSE 3

\* the error of a failed load: fast_summarize_text wraps it with the model
\* name, _initialize_models lets it through
load_error_unnamed(p, model_name, r) ==
    IF p = "fast"
    THEN <<Prefix(p), IF r = "falsy" THEN MsgComponents ELSE MsgLoaderRaised>>
    ELSE <<MsgLoaderRaised>>

load_error(p, model_name, r) ==
    IF p = "fast"
    THEN <<MsgLoad, model_name,
           IF r = "falsy" THEN MsgComponents ELSE MsgLoaderRaised>>
    ELSE <<MsgLoaderRaised>>

LoadModel(r) ==
    /\ p_stage = "LOAD_MODEL"
    /\ r \in LoadOutcomes(p_pipeline)
    /\ p_loads' = p_loads + loader_calls(p_pipeline, r)
    /\ IF r \in {"ok", "warm", "tok_warm"} THEN Enter("CHUNK") /\ UNCHANGED p_error
       ELSE Fail(load_error(p_pipeline, p_model_name, r))
    /\ UNCHANGED <<p_pipeline, p_text, p_max_sentences, p_model_name, p_chunks,
                   p_done, p_calls, p_partials, p_reduce_calls, p_combined,
                   p_output, p_chunk_encode, p_measured, p_passes,
                   p_reduce_outs, chunkVars, poolVars, cacheVars>>

\* the chunker returns chs; enc tells whether tokenizer.encode raised in it,
\* in which case optimize_text_chunking packs the words of the text instead
ChunkLists == SeqsUpTo({"ok", "short"}, MaxChunks)

EncodeOutcomes == {"ok", "raises"}

\* max_tokens of the chunker call
chunk_max_tokens(p) ==
    IF p = "fast" THEN FAST_MAX_TOKENS
    ELSE IF p = "enhanced" THEN ENHANCE_MAX_INPUT_TOKENS - 32
    ELSE CHINESE_MAX_TOKENS

\* len(chunk.strip()) < 10: the chunk is skipped
ChunkKind(chunk) == IF Len(Strip(chunk)) < MIN_CHUNK_CHARS THEN "short" ELSE "ok"

\* the chunks of the word-based branch of optimize_text_chunking
FallbackChunks(p, text) ==
    optimize_text_chunking(text, chunk_max_tokens(p), "raises")

\* the enhanced pipeline skips a chunk by its token length, which the word
\* chunks do not determine
IsFallback(p, text, chs) ==
    /\ Len(chs) = Len(FallbackChunks(p, text))
    /\ p # "enhanced" =>
          \A k \in 1..Len(chs) : chs[k] = ChunkKind(FallbackChunks(p, text)[k])

ChunkText(chs, enc) ==
    /\ p_stage = "CHUNK"
    /\ enc \in EncodeOutcomes
    /\ enc = "raises" => IsFallback(p_pipeline, p_text, chs)
    /\ p_chunk_encode' = enc
    /\ IF chs = <<>>
       THEN Fail(<<Prefix(p_pipeline), MsgNoChunks>>) /\ UNCHANGED <<p_chunks, p_calls>>
       ELSE /\ Enter("SUMMARIZE_CHUNKS")
            /\ p_chunks' = chs
            /\ p_calls' = [i \in 1..Len(chs) |-> 0]
            /\ UNCHANGED p_error
    /\ IF p_pipeline = "fast" /\ chs # <<>>
       THEN \* chunk_args: one work item per chunk, none submitted yet
            /\ pl_n' = Len(chs)
            /\ pl_future' = [i \in 1..Len(chs) |-> "none"]
            /\ pl_result' = [i \in 1..Len(chs) |-> "none"]
            /\ pl_calls' = [i \in 1..Len(chs) |-> 0]
            /\ UNCHANGED <<pl_pc, pl_seen, pl_partials, pl_combined>>
       ELSE UNCHANGED poolVars
    /\ UNCHANGED <<p_pipeline, p_text, p_max_sentences, p_model_name,
                   p_done, p_partials, p_reduce_calls, p_combined,
                   p_output, p_loads, p_measured, p_passes, p_reduce_outs,
                   chunkVars, cacheVars>>

\* one iteration of the loop over the chunks of the enhanced and Chinese
\* pipelines, in chunk order.  A chunk under the minimum is skipped without a
\* call; a call that raises or returns nothing usable is logged and skipped.
NextInOrder(i) == \A j \in 1..Len(p_chunks) : j < i => j \in p_done

add_partial(partials, summary) ==
    IF summary # <<>> THEN Append(partials, summary) ELSE partials

\* a loop without the minimum: the summarizer is called on every chunk
summarize_chunk_without_minimum(i, o) ==
    /\ p_stage = "SUMMARIZE_CHUNKS"
    /\ i \in 1..Len(p_chunks)
    /\ i \notin p_done
    /\ p_pipeline # "fast"
    /\ NextInOrder(i)
    /\ p_done' = p_done \cup {i}
    /\ p_calls' = [p_calls EXCEPT ![i] = @ + 1]
    /\ p_partials' = add_partial(p_partials, chunk_summary(o))
    /\ UNCHANGED <<p_pipeline, p_text, p_max_sentences, p_model_name, p_stage,
                   p_trace, p_chunks, p_reduce_calls, p_combined, p_output,
                   p_error, p_loads, p_chunk_encode, p_measured, p_passes,
                   p_reduce_outs, chunkVars, poolVars, cacheVars>>

SummarizeChunk(i, o) ==
    /\ p_stage = "SUMMARIZE_CHUNKS"
    /\ i \in 1..Len(p_chunks)
    /\ i \notin p_done
    /\ p_pipeline # "fast"
    /\ NextInOrder(i)
    /\ p_done' = p_done \cup {i}
    /\ IF p_chunks[i] = "short"
       THEN UNCHANGED <<p_calls, p_partials>>
       ELSE /\ p_calls' = [p_calls EXCEPT ![i] = @ + 1]
            /\ p_partials' = add_partial(p_partials, chunk_summary(o))
    /\ UNCHANGED <<p_pipeline, p_text, p_max_sentences, p_model_name, p_stage,
                   p_trace, p_chunks, p_reduce_calls, p_combined, p_output,
                   p_error, p_loads, p_chunk_encode, p_measured, p_passes,
                   p_reduce_outs, chunkVars, poolVars, cacheVars>>

(***************************************************************************)
(* The first pass of fast_summarize_text: the chunks are submitted to the  *)
(* executor one by one (PoolSubmit), the workers take them (WorkerStart)   *)
(* and return (FastWorkerFinish), the calling thread reads the futures in  *)
(* completion order (FastCollect) and leaves the with block (PoolCombine). *)
(* pl_result holds the dict _process_chunk_parallel returned for a chunk.  *)
(***************************************************************************)
\* the dict _process_chunk_parallel returns for a chunk of the given kind
\* when the summarizer call ends with outcome o
worker_result(kind, o) ==
    IF kind = "short"
    THEN [success |-> FALSE, reason |-> "too_short", summary |-> <<>>]
    ELSE IF o.kind = "raises"
    THEN [success |-> FALSE, reason |-> "error", summary |-> <<>>]
    ELSE IF o.kind = "malformed"
    THEN [success |-> FALSE, reason |-> "no_summary", summary |-> <<>>]
    ELSE IF o.kind = "invalid"
    THEN [success |-> FALSE, reason |-> "invalid_result", summary |-> <<>>]
    ELSE IF IsBlank(o.text)
    THEN [success |-> FALSE, reason |-> "empty_summary", summary |-> <<>>]
    ELSE [success |-> TRUE, reason |-> "none", summary |-> Strip(o.text)]

\* the worker of chunk i returns; the summarizer was called unless the chunk
\* is under the minimum
FastWorkerFinish(i, o) ==
    /\ PoolOpen
    /\ i \in Running
    /\ pl_future' = [pl_future EXCEPT ![i] = "done"]
    /\ pl_result' = [pl_result EXCEPT ![i] = worker_result(p_chunks[i], o)]
    /\ pl_calls' = [pl_calls EXCEPT ![i] = IF p_chunks[i] = "short" THEN @ ELSE @ + 1]
    /\ p_calls' = [p_calls EXCEPT ![i] = IF p_chunks[i] = "short" THEN @ ELSE @ + 1]
    /\ UNCHANGED <<pl_pc, pl_n, pl_seen, pl_partials, pl_combined,
                   p_pipeline, p_text, p_max_sentences, p_model_name, p_stage,
                   p_trace, p_chunks, p_done, p_partials, p_reduce_calls,
                   p_combined, p_output, p_error, p_loads, p_chunk_encode,
                   p_measured, p_passes, p_reduce_outs, chunkVars, cacheVars>>

\* as_completed yields the future of chunk i: its summary is appended to
\* partials, a failure is logged
FastCollect(i) ==
    /\ pl_pc = "collecting"
    /\ i \in 1..pl_n
    /\ pl_future[i] = "done"
    /\ i \notin pl_seen
    /\ pl_seen' = pl_seen \cup {i}
    /\ pl_partials' = IF pl_result[i].success THEN Append(pl_partials, i) ELSE pl_partials
    /\ p_done' = p_done \cup {i}
    /\ p_partials' = add_partial(p_partials, pl_result[i].summary)
    /\ UNCHANGED <<pl_pc, pl_n, pl_future, pl_result, pl_calls, pl_combined,
                   p_pipeline, p_text, p_max_sentences, p_model_name, p_stage,
                   p_trace, p_chunks, p_calls, p_reduce_calls, p_combined,
                   p_output, p_error, p_loads, p_chunk_encode, p_measured,
                   p_passes, p_reduce_outs, chunkVars, cacheVars>>

first_pass_never_failed(partials, n_chunks) == FALSE

\* if not partials: raise Exception("No summaries were generated ...")
first_pass_failed(partials, n_chunks) == partials = <<>>

\* every chunk was handled: no partial is the end of the request, otherwise
\* the partials are joined
Combine ==
    /\ p_stage = "SUMMARIZE_CHUNKS"
    /\ p_done = 1..Len(p_chunks)
    /\ p_pipeline = "fast" => pl_pc \in {"combined", "failed"}
    /\ IF first_pass_failed(p_partials, Len(p_chunks))
       THEN Fail(<<Prefix(p_pipeline), NoSummariesMsg(p_pipeline)>>)
            /\ UNCHANGED p_combined
       ELSE LET combined == Join(p_partials, <<" ">>)
            IN  IF p_pipeline = "fast" /\ (combined = <<>> \/ IsBlank(combined))
                THEN Fail(<<Prefix(p_pipeline), MsgCombine>>) /\ UNCHANGED p_combined
                ELSE /\ EnterVia(<<"COMBINE", "MAYBE_REDUCE">>)
                     /\ p_combined' = combined
                     /\ UNCHANGED p_error
    /\ UNCHANGED <<p_pipeline, p_text, p_max_sentences, p_model_name, p_chunks,
                   p_done, p_calls, p_partials, p_reduce_calls, p_output,
                   p_loads, p_chunk_encode, p_measured, p_passes,
                   p_reduce_outs, chunkVars, poolVars, cacheVars>>

\* the second pass of fast_summarize_text over the chunks of combined, one
\* outcome per chunk: the refined parts
RefinedParts(outs) ==
    LET sums == [k \in 1..Len(outs) |-> chunk_summary(outs[k])]
    IN  SelectSeq(sums, LAMBDA t : t # <<>>)

\* the second pass of the enhanced and Chinese pipelines: one call on
\* combined; a well-formed result replaces combined
reduce_once(combined, o) ==
    IF o.kind = "text" THEN Strip(o.text) ELSE combined

\* if len(tokenizer.encode(combined)) > budget
needs_second_pass_at_budget(n, budget) == n >= budget

needs_second_pass(n, budget) == n > budget

\* n is the measured token length of combined (-1: encode raised); outs are
\* the outcomes of the second-pass calls, were they made
MaybeReduce(n, outs) ==
    /\ p_stage = "MAYBE_REDUCE"
    /\ n \in MeasureInputs(p_pipeline)
    /\ p_measured' = n
    /\ IF p_pipeline = "fast"
       THEN /\ Enter("FORMAT")
            /\ UNCHANGED p_error
            /\ IF needs_second_pass(n, Budget(p_pipeline))
               THEN /\ p_passes' = p_passes + 1
                    /\ p_reduce_outs' = outs
                    /\ p_reduce_calls' = Len(outs)
                    /\ p_combined' = IF RefinedParts(outs) # <<>>
                                     THEN Join(RefinedParts(outs), <<" ">>)
                                     ELSE p_combined
               ELSE UNCHANGED <<p_reduce_calls, p_combined, p_passes, p_reduce_outs>>
       ELSE IF n = -1
            THEN /\ Fail(<<Prefix(p_pipeline), MsgEncodeRaised>>)
                 /\ UNCHANGED <<p_reduce_calls, p_combined, p_passes, p_reduce_outs>>
            ELSE /\ Enter("FORMAT")
                 /\ UNCHANGED p_error
                 /\ IF needs_second_pass(n, Budget(p_pipeline))
                    THEN /\ Len(outs) = 1
                         /\ p_passes' = p_passes + 1
                         /\ p_reduce_outs' = outs
                         /\ p_reduce_calls' = 1
                         /\ p_combined' = reduce_once(p_combined, outs[1])
                    ELSE UNCHANGED <<p_reduce_calls, p_combined, p_passes,
                                     p_reduce_outs>>
    /\ UNCHANGED <<p_pipeline, p_text, p_max_sentences, p_model_name, p_chunks,
                   p_done, p_calls, p_partials, p_output, p_loads,
                   p_chunk_encode, chunkVars, poolVars, cacheVars>>

(***************************************************************************)
(* The output formatters.                                                  *)
(***************************************************************************)
FirstN(seq, n) == SubSeq(seq, 1, IF Len(seq) < n THEN Len(seq) ELSE n)

EndsWithDot(s) == s # <<>> /\ s[Len(s)] = "."

\* fast_summarize_text step 5: combined after the sentence count is applied
fast_shorten(combined, max_sentences) ==
    LET sentences == StripNonBlank(SplitOn(combined, {"."}, 1, <<>>))
        joined    == Strip(Join(FirstN(sentences, max_sentences), <<".", " ">>))
    IN  IF max_sentences > 0 /\ Len(sentences) > 0
        THEN IF EndsWithDot(joined) THEN joined ELSE Append(joined, ".")
        ELSE combined

Bullets(sentences) ==
    Join([k \in 1..Len(sentences) |-> <<"-", " ">> \o sentences[k]], <<"\n">>)

\* utils/enhance_summarize.py _format_markdown
_format_markdown(summary_text) ==
    LET sentences == enhance_split_sentences(summary_text)
    IN  IF summary_text = <<>> \/ IsBlank(summary_text) \/ sentences = <<>> THEN <<>>
        ELSE IF Len(sentences) > 1 THEN Bullets(sentences)
        ELSE sentences[1]

\* enhance_summarize_text steps 3 and 4
enhance_format(combined, max_sentences) ==
    _format_markdown(Join(FirstN(enhance_split_sentences(combined), max_sentences),
                          <<" ">>))

\* chinese_summarize_text step 5
chinese_format(combined_summary, max_sentences) ==
    LET sentences == _split_chinese_sentences(combined_summary)
    IN  IF Len(sentences) > 1 THEN Bullets(FirstN(sentences, max_sentences))
        ELSE sentences[1]

\* if not sentences: raise Exception("No sentences found ...")
enhance_no_sentences_unchecked(sentences) == FALSE

enhance_no_sentences(sentences) == sentences = <<>>

chinese_no_sentences(sentences) == sentences = <<>>

Format ==
    /\ p_stage = "FORMAT"
    /\ IF p_pipeline = "fast"
       THEN LET combined == fast_shorten(p_combined, p_max_sentences)
            IN  /\ p_combined' = combined
                /\ IF combined = <<>> \/ Len(Strip(combined)) < MIN_SUMMARY_CHARS
                   THEN Fail(<<Prefix(p_pipeline), MsgTooShortSummary>>)
                        /\ UNCHANGED p_output
                   ELSE Enter("DONE") /\ p_output' = Strip(combined)
                        /\ UNCHANGED p_error
       ELSE /\ UNCHANGED p_combined
            /\ IF IF p_pipeline = "enhanced"
                  THEN enhance_no_sentences(enhance_split_sentences(p_combined))
                  ELSE chinese_no_sentences(_split_chinese_sentences(p_combined))
               THEN Fail(<<Prefix(p_pipeline), NoSentencesMsg(p_pipeline)>>)
                    /\ UNCHANGED p_output
               ELSE /\ Enter("DONE")
                    /\ UNCHANGED p_error
                    /\ p_output' = IF p_pipeline = "enhanced"
                                   THEN enhance_format(p_combined, p_max_sentences)
                                   ELSE chinese_format(p_combined, p_max_sentences)
    /\ UNCHANGED <<p_pipeline, p_text, p_max_sentences, p_model_name, p_chunks,
                   p_done, p_calls, p_partials, p_reduce_calls, p_loads,
                   p_chunk_encode, p_measured, p_passes, p_reduce_outs,
                   chunkVars, poolVars, cacheVars>>

Next ==
    \/ Validate
    \/ \E r \in LoadOutcomes(p_pipeline) : LoadModel(r)
    \/ \E chs \in ChunkLists, enc \in EncodeOutcomes : ChunkText(chs, enc)
    \/ \E i \in 1..MaxChunks, o \in Outcomes(p_pipeline) : SummarizeChunk(i, o)
    \/ PoolSubmit
    \/ \E i \in 1..MaxChunks : WorkerStart(i)
    \/ \E i \in 1..MaxChunks, o \in Outcomes("fast") : FastWorkerFinish(i, o)
    \/ \E i \in 1..MaxChunks : FastCollect(i)
    \/ PoolCombine
    \/ Combine
    \/ \E n \in MeasureInputs(p_pipeline),
          outs \in SeqsUpTo(Outcomes(p_pipeline), MaxReduceChunks) : MaybeReduce(n, outs)
    \/ Format

Spec == PipeInit /\ [][Next]_vars

(***************************************************************************)
(* fast_summarize_text alone, on up to MaxFastChunks chunks, with the      *)
(* steps of the calling thread and those of the workers told apart.        *)
(***************************************************************************)
FastChunkLists == SeqsUpTo({"ok", "short"}, MaxFastChunks)

FastInit == PipeInit /\ p_pipeline = "fast"

\* the steps of the thread that called fast_summarize_text, up to the
\* sentence formatting of step 5
FastBeforeFormat ==
    \/ Validate
    \/ \E r \in LoadOutcomes("fast") : LoadModel(r)
    \/ \E chs \in FastChunkLists, enc \in EncodeOutcomes : ChunkText(chs, enc)
    \/ PoolSubmit
    \/ \E i \in 1..MaxFastChunks : FastCollect(i)
    \/ PoolCombine
    \/ Combine
    \/ \E n \in MeasureInputs("fast"),
          outs \in SeqsUpTo(Outcomes("fast"), MaxReduceChunks) : MaybeReduce(n, outs)

\* the steps of the thread that called fast_summarize_text
FastMainThread == FastBeforeFormat \/ Format

\* the steps of the worker threads of the executor
FastWorkers ==
    \/ \E i \in 1..MaxFastChunks : WorkerStart(i)
    \/ \E i \in 1..MaxFastChunks, o \in Outcomes("fast") : FastWorkerFinish(i, o)

FastNext == FastMainThread \/ FastWorkers

SpecFast == FastInit /\ [][FastNext]_vars

\* the calling thread goes on whenever it is not blocked; an idle worker
\* takes a queued item; every summarizer call returns or raises.  Step 5 is
\* straight-line string code over the combined summary: the request does not
\* stay in it for ever.
FastFairness ==
    /\ WF_vars(FastBeforeFormat)
    /\ []<>(p_stage # "FORMAT")
    /\ \A i \in 1..MaxFastChunks :
          /\ WF_vars(WorkerStart(i))
          /\ WF_vars(\E o \in Outcomes("fast") : FastWorkerFinish(i, o))

SpecFastFair == FastInit /\ [][FastNext]_vars /\ FastFairness

(***************************************************************************)
(* Claims about the chunkers, checked under SpecChunk.                     *)
(***************************************************************************)
\* the smallest k with k * b >= n
CeilDiv(n, b) == CHOOSE k \in 0..n : k * b >= n /\ (k = 0 \/ (k - 1) * b < n)

ResplitAll(chunks, split(_)) ==
    Flatten([k \in 1..Len(chunks) |-> split(chunks[k])])

\* C5: every chunk of sentence-aware packing has a total sentence token
\* length of at most the budget unless it is one sentence that alone exceeds
\* it, and every chunk of raw token-window slicing is decoded from at most
\* max_tokens ids.
C5_TokenBudget ==
    /\ ck_op = "chunk_by_tokens" =>
          /\ ck_out = JoinGroups(ck_groups)
          /\ \A k \in 1..Len(ck_groups) :
                \/ SumSeq(SentenceLens(ck_tok, ck_groups[k])) <= ck_max
                \/ /\ Len(ck_groups[k]) = 1
                   /\ TokLen(ck_tok, ck_groups[k][1]) > ck_max
    /\ ck_op = "chunk_text" =>
          /\ ck_out = JoinGroups(ck_groups)
          /\ \A k \in 1..Len(ck_groups) :
                \/ ~FloatGreaterInt(FloatSum(EstimateLens(ck_groups[k])), ck_max)
                \/ /\ Len(ck_groups[k]) = 1
                   /\ FloatGreaterInt(EstimateTokens(ck_groups[k][1]), ck_max)
    /\ (ck_op = "optimize" /\ ck_tok # "raises") =>
          /\ \A w \in 1..Len(ck_windows) : Len(ck_windows[w]) <= ck_max
          /\ ck_out = StripNonBlank([w \in 1..Len(ck_windows) |->
                                        Decode(ck_tok, ck_windows[w])])

\* C5 witness: packing has produced several chunks, one of them a single
\* sentence over the budget and one of them holding two sentences.
C5_Witness ==
    /\ ck_op = "chunk_by_tokens"
    /\ \E k \in 1..Len(ck_groups) :
          Len(ck_groups[k]) = 1 /\ TokLen(ck_tok, ck_groups[k][1]) > ck_max
    /\ \E k \in 1..Len(ck_groups) : Len(ck_groups[k]) >= 2

\* C6: sentence-aware packing loses and duplicates nothing: the sentences of
\* the chunks, re-split and concatenated in chunk order, are the sentences of
\* the text, and a sentence over the budget is a chunk of its own.
C6_NoLossNoDuplication ==
    /\ ck_op = "chunk_by_tokens" =>
          /\ ResplitAll(ck_out, _split_sentences) = _split_sentences(ck_text)
          /\ Flatten(ck_groups) = _split_sentences(ck_text)
    /\ ck_op = "chunk_text" =>
          /\ ResplitAll(ck_out, enhance_split_sentences)
                = enhance_split_sentences(ck_text)
          /\ Flatten(ck_groups) = enhance_split_sentences(ck_text)

\* C6 witness: a text of three sentences has been packed into two or more
\* chunks, one of them an over-budget sentence.
C6_Witness ==
    /\ ck_op = "chunk_by_tokens"
    /\ Len(_split_sentences(ck_text)) >= 3
    /\ Len(ck_out) >= 2
    /\ \E k \in 1..Len(ck_groups) :
          Len(ck_groups[k]) = 1 /\ TokLen(ck_tok, ck_groups[k][1]) > ck_max

\* C7: token-window slicing cuts the n encoded ids into ceil(n / max_tokens)
\* contiguous windows, all but the last of exactly max_tokens ids, covering
\* every id once and in order; each window that does not decode to blank
\* text gives one chunk; blank text or text of zero ids gives no chunk.
C7_WindowPartition ==
    (ck_op = "optimize" /\ ck_tok # "raises") =>
        LET ids == Encode(ck_tok, ck_text)
            n   == Len(ids)
            k   == Len(ck_windows)
        IN  IF ck_text = <<>> \/ IsBlank(ck_text) \/ n = 0
            THEN ck_out = <<>>
            ELSE /\ k = CeilDiv(n, ck_max)
                 /\ \A w \in 1..(k - 1) : Len(ck_windows[w]) = ck_max
                 /\ Len(ck_windows[k]) \in 1..ck_max
                 /\ Flatten(ck_windows) = ids
                 /\ Len(ck_out) =
                       Cardinality({w \in 1..k : ~IsBlank(Decode(ck_tok, ck_windows[w]))})
                 /\ ck_out = StripNonBlank([w \in 1..k |-> Decode(ck_tok, ck_windows[w])])

\* C7 witness: the ids were cut into three or more windows, the last one
\* shorter than max_tokens, and one window decoded to blank text.
C7_Witness ==
    /\ ck_op = "optimize"
    /\ ck_tok = "chars"
    /\ Len(ck_windows) >= 3
    /\ Len(ck_windows[Len(ck_windows)]) < ck_max
    /\ Len(ck_out) < Len(ck_windows)
    /\ Len(ck_out) >= 1

(***************************************************************************)
(* Claims about the thread pool, checked under SpecPool.                   *)
(***************************************************************************)
IsAscending(seq) == \A a, b \in 1..Len(seq) : a < b => seq[a] < seq[b]

\* C1: the partial summaries joined into the combined summary are ordered by
\* chunk index, whatever the order in which the workers complete.
C1_PartialsInChunkOrder ==
    pl_pc = "combined" => IsAscending(pl_combined)

(***************************************************************************)
(* Claims about the cached loaders, checked under SpecLoader.              *)
(***************************************************************************)
\* C4: the tokenizer and summarizer handles a fast_summarize_text request
\* uses are the ones loaded for its own model_name.
C4_HandlesOfOwnModel ==
    \A t \in Threads :
        th_pc[t] = "ready" =>
            /\ th_tok[t].model = th_model[t]
            /\ th_sum[t].model = th_model[t]

(***************************************************************************)
(* Claims about the pipelines, checked under Spec.                         *)
(***************************************************************************)
InTrace(stage) == \E k \in 1..Len(p_trace) : p_trace[k] = stage

AllChunksHandled == Len(p_chunks) >= 1 /\ p_done = 1..Len(p_chunks)

FirstPassOver == AllChunksHandled /\ p_stage # "SUMMARIZE_CHUNKS"

\* the summarizer calls of the first pass that gave no partial summary
FailedCalls == SumSeq(p_calls) - Len(p_partials)

PartialFailure == FirstPassOver /\ p_partials # <<>> /\ FailedCalls >= 1

\* C2: when at least one chunk gives a summary while other chunks fail (the
\* model call raises, or returns a malformed or empty result), the call
\* returns a non-empty string and raises no error.
C2_AlwaysReturns ==
    PartialFailure =>
        /\ p_stage # "FAILED"
        /\ p_stage = "DONE" => p_output # <<>>

\* C3: when no chunk gives a non-empty summary the call raises an error that
\* reports that no summaries were generated, and neither the second pass nor
\* the formatter is reached.
C3_NoSummaryFails ==
    (FirstPassOver /\ p_partials = <<>>) =>
        /\ p_stage = "FAILED"
        /\ p_error = <<Prefix(p_pipeline), NoSummariesMsg(p_pipeline)>>
        /\ ~InTrace("MAYBE_REDUCE")
        /\ ~InTrace("FORMAT")
        /\ p_reduce_calls = 0
        /\ p_output = <<>>

C3_Witness ==
    /\ FirstPassOver
    /\ p_partials = <<>>
    /\ Len(p_chunks) = 2
    /\ \A i \in 1..2 : p_calls[i] = 1
    /\ p_stage = "FAILED"
    /\ p_error = <<Prefix(p_pipeline), NoSummariesMsg(p_pipeline)>>

\* the Sentence Splitter of the pipeline's language
LanguageSplit(p, s) ==
    IF p = "fast" THEN _split_sentences(s)
    ELSE IF p = "enhanced" THEN enhance_split_sentences(s)
    ELSE _split_chinese_sentences(s)

\* C8: for max_sentences = N in 1..50 the string a pipeline returns, split
\* again with the pipeline's sentence splitter, has at most N sentences.
C8_SentenceCeiling ==
    (p_stage = "DONE" /\ p_max_sentences \in 1..MAX_SENTENCES_LIMIT) =>
        Len(LanguageSplit(p_pipeline, p_output)) <= p_max_sentences

\* the sentences that remain after truncating to max_sentences
Remaining ==
    FirstN(LanguageSplit(p_pipeline, p_combined), p_max_sentences)

\* C9: the enhanced and Chinese pipelines return a bullet list exactly when
\* more than one sentence remains after truncating to max_sentences, and the
\* sentence itself, without "- ", when exactly one remains.
C9_BulletsIffSeveralRemain ==
    (p_stage = "DONE" /\ p_pipeline \in {"enhanced", "chinese"}) =>
        /\ Len(Remaining) > 1 => p_output = Bullets(Remaining)
        /\ Len(Remaining) = 1 => p_output = Remaining[1]

OtherwiseValid ==
    /\ _validate_input(p_text, 1) = "ok"
    /\ p_model_name # ""

\* C10: with otherwise valid input, validation accepts max_sentences exactly
\* when 1 <= max_sentences <= 50; any other value raises
\* 'max_sentences must be between 1 and 50'.
C10_MaxSentencesRange ==
    (OtherwiseValid /\ p_stage # "VALIDATE") =>
        IF p_max_sentences \in 1..50
        THEN InTrace("LOAD_MODEL")
        ELSE p_stage = "FAILED" /\ p_error = <<MsgSentences>>

C10_Witness ==
    /\ OtherwiseValid
    /\ p_max_sentences = 51
    /\ p_stage = "FAILED"
    /\ p_error = <<MsgSentences>>

ValidationMessages == {MsgEmpty, MsgTooShort, MsgSentences, MsgModelName}

\* C11: fast_summarize_text reports one validation error, that of the first
\* failing check in the order text empty or blank, stripped text under 50
\* characters, max_sentences out of range, model name empty; the four
\* messages differ and a stripped text of exactly 50 characters is accepted.
C11_FirstFailingCheck ==
    /\ Cardinality(ValidationMessages) = 4
    /\ (p_pipeline = "fast" /\ p_stage # "VALIDATE") =>
          IF p_text = <<>> \/ IsBlank(p_text)
          THEN p_stage = "FAILED" /\ p_error = <<MsgEmpty>>
          ELSE IF Len(Strip(p_text)) < 50
          THEN p_stage = "FAILED" /\ p_error = <<MsgTooShort>>
          ELSE IF p_max_sentences \notin 1..50
          THEN p_stage = "FAILED" /\ p_error = <<MsgSentences>>
          ELSE IF p_model_name = ""
          THEN p_stage = "FAILED" /\ p_error = <<MsgModelName>>
          ELSE InTrace("LOAD_MODEL")

\* two checks fail and the earlier one is reported
C11_Witness ==
    /\ p_pipeline = "fast"
    /\ Len(Strip(p_text)) = 50
    /\ p_max_sentences = 0
    /\ p_model_name = ""
    /\ p_stage = "FAILED"
    /\ p_error = <<MsgSentences>>

\* the request ended with a validation error
Rejected ==
    /\ p_stage = "FAILED"
    /\ \E m \in ValidationMessages : p_error = <<m>>

NoChunking == p_chunk_encode = "none" /\ p_chunks = <<>>

NoSummarizerCall == SumSeq(p_calls) = 0 /\ p_reduce_calls = 0 /\ p_passes = 0

\* C12: when validation rejects a request the error is raised before
\* LOAD_MODEL is entered: no loader was called, nothing was chunked and the
\* summarizer was not called.
C12_RejectedBeforeModelWork ==
    Rejected =>
        /\ p_trace = <<"VALIDATE">>
        /\ p_loads = 0
        /\ NoChunking
        /\ NoSummarizerCall

C12_Witness ==
    /\ Rejected
    /\ p_pipeline = "chinese"
    /\ p_error = <<MsgTooShort>>
    /\ p_loads = 0

\* the loading step of the request ended without handles
LoadFailed ==
    /\ InTrace("LOAD_MODEL")
    /\ p_stage # "LOAD_MODEL"
    /\ ~InTrace("CHUNK")

\* C13: when a loader raises, fast_summarize_text fails with a message that
\* holds 'Failed to load model' and the requested model name, and neither
\* chunking nor a summarizer call happens.
C13_LoadFailureNamesModel ==
    (p_pipeline = "fast" /\ LoadFailed) =>
        /\ p_stage = "FAILED"
        /\ Len(p_error) = 3
        /\ p_error[1] = MsgLoad
        /\ p_error[2] = p_model_name
        /\ p_model_name # ""
        /\ NoChunking
        /\ NoSummarizerCall

C13_Witness ==
    /\ p_pipeline = "fast"
    /\ LoadFailed
    /\ p_loads = 1
    /\ p_error = <<MsgLoad, "A", MsgLoaderRaised>>

\* C14: a second pass is made exactly when the measured token length of the
\* combined summary is greater than the pipeline's budget, and at most once
\* in a request.
C14_SecondPassOverBudgetOnce ==
    /\ p_passes <= 1
    /\ p_measured = NotMeasured => p_passes = 0
    /\ p_measured # NotMeasured =>
          (p_passes = 1 <=> p_measured > Budget(p_pipeline))
    /\ p_pipeline # "fast" => p_reduce_calls = p_passes

C14_Witness ==
    /\ p_stage = "DONE"
    /\ p_measured = Budget(p_pipeline) + 1
    /\ p_passes = 1
    /\ p_pipeline = "enhanced"
    /\ p_reduce_calls = 1

\* the second pass gave nothing: the length could not be measured, or no
\* call of the pass returned a usable summary
SecondPassFailed ==
    \/ p_measured = -1
    \/ p_passes = 1 /\ RefinedParts(p_reduce_outs) = <<>>

\* the combined summary of the first pass
UncompressedCombined == Join(p_partials, <<" ">>)

\* what formatting the uncompressed combined summary returns (<<>> when the
\* formatter itself rejects it)
UncompressedFormatted ==
    IF p_pipeline = "fast"
    THEN LET c == fast_shorten(UncompressedCombined, p_max_sentences)
         IN  IF Len(Strip(c)) < MIN_SUMMARY_CHARS THEN <<>> ELSE Strip(c)
    ELSE IF LanguageSplit(p_pipeline, UncompressedCombined) = <<>> THEN <<>>
    ELSE IF p_pipeline = "enhanced"
    THEN enhance_format(UncompressedCombined, p_max_sentences)
    ELSE chinese_format(UncompressedCombined, p_max_sentences)

\* C15: when the second pass fails in any way the request does not fail for
\* it: the output is the formatted uncompressed combined summary.
C15_SecondPassFailureFallsBack ==
    (/\ p_stage \in {"DONE", "FAILED"}
     /\ p_partials # <<>>
     /\ SecondPassFailed
     /\ UncompressedFormatted # <<>>) =>
        /\ p_stage = "DONE"
        /\ p_output = UncompressedFormatted

\* C16: no pipeline returns an empty or blank string; a combined summary
\* without a sentence ends the request with an error.
C16_NeverBlankOutput ==
    /\ p_stage = "DONE" => (p_output # <<>> /\ ~IsBlank(p_output))
    /\ (/\ InTrace("FORMAT")
        /\ p_stage # "FORMAT"
        /\ LanguageSplit(p_pipeline, p_combined) = <<>>) =>
           (p_stage = "FAILED" /\ p_output = <<>>)

C16_Witness ==
    /\ p_pipeline = "chinese"
    /\ InTrace("FORMAT")
    /\ p_combined = ChiMarkOnly
    /\ p_stage = "FAILED"
    /\ p_error = <<Prefix("chinese"), NoSentencesMsg("chinese")>>

StageOrder ==
    <<"VALIDATE", "LOAD_MODEL", "CHUNK", "SUMMARIZE_CHUNKS", "COMBINE",
      "MAYBE_REDUCE", "FORMAT", "DONE">>

\* C17: the stages of a request are entered in the order VALIDATE,
\* LOAD_MODEL, CHUNK, SUMMARIZE_CHUNKS, COMBINE, MAYBE_REDUCE, FORMAT, DONE,
\* none skipped and none entered again.
C17_StagesInOrder ==
    /\ Len(p_trace) \in 1..Len(StageOrder)
    /\ p_trace = SubSeq(StageOrder, 1, Len(p_trace))
    /\ p_stage # "FAILED" => p_stage = p_trace[Len(p_trace)]

C17_Witness ==
    /\ p_stage = "DONE"
    /\ p_trace = StageOrder
    /\ p_passes = 1

(***************************************************************************)
(* More claims about the thread pool, checked under SpecPool.              *)
(***************************************************************************)
\* C18: at most min(4, number of chunks) chunk summarizations are in progress
\* at the same time.
C18_BoundedWorkers ==
    /\ Cardinality(Running) <= 4
    /\ Cardinality(Running) <= pl_n

C18_Witness ==
    /\ pl_n = 5
    /\ Cardinality(Running) = 4
    /\ Queued # {}

(***************************************************************************)
(* More claims about the cached loaders, checked under SpecLoader.         *)
(***************************************************************************)
\* a thread past its tokenizer loader holds a tokenizer handle, a thread with
\* both loaders behind it holds both handles
HandlesLoaded ==
    \A t \in Threads :
        /\ th_loader[t] = "fast_summarizer" => th_tok[t] # NoHandle
        /\ th_pc[t] = "ready" => (th_tok[t] # NoHandle /\ th_sum[t] # NoHandle)

\* a request fails only where its own loader raises
FailsOnlyInLoader ==
    \A t \in Threads :
        (th_pc[t] # "failed" /\ th_pc'[t] = "failed") => th_pc[t] = "load"

\* the entries of key in _access_times
AccessEntries(acc, key) == Len(SelectSeq(acc, LAMBDA e : e.key = key))

\* after a thread has stored its handle the cache holds one entry for the
\* key, with that handle
LastWriterWins ==
    \A t \in Threads :
        (th_pc[t] = "set" /\ th_pc'[t] # "set") =>
            /\ th_loader[t] \in DOMAIN mc_cache'
            /\ mc_cache'[th_loader[t]].item = th_value[t]
            /\ AccessEntries(mc_access', th_loader[t]) = 1

\* C19: when two threads ask for the same absent key at the same time, under
\* every interleaving both get a loaded handle, the cache raises no error,
\* and after each store the cache holds exactly one entry for the key, the
\* handle of the last writer.
C19_RaceTolerantPopulation ==
    /\ []HandlesLoaded
    /\ [][FailsOnlyInLoader /\ LastWriterWins]_vars

\* both threads missed the tokenizer key and loaded; thread 2 stored last
C19_Witness ==
    /\ th_tok[1] # NoHandle /\ th_tok[1].by = 1
    /\ th_tok[2] # NoHandle /\ th_tok[2].by = 2
    /\ "fast_tokenizer" \in DOMAIN mc_cache
    /\ mc_cache["fast_tokenizer"].item = th_tok[2]
    /\ mc_now = 0

(***************************************************************************)
(* More claims about the pipelines, checked under Spec.                    *)
(***************************************************************************)
MsgFailedToChunk == "Failed to chunk text"

\* C20: when tokenizer.encode raises while the text is chunked,
\* fast_summarize_text raises an error whose message holds
\* 'Failed to chunk text'.
C20_EncodeFailureRaises ==
    (p_pipeline = "fast" /\ p_chunk_encode = "raises") =>
        /\ p_stage = "FAILED"
        /\ \E k \in 1..Len(p_error) : p_error[k] = MsgFailedToChunk

(***************************************************************************)
(* More claims about the chunkers, checked under SpecChunk.                *)
(***************************************************************************)
\* optimize_text_chunking met an error of encode or of decode
TokenizerRaised ==
    \/ ck_op = "optimize" /\ ck_tok = "raises" /\ ~IsBlank(ck_text)
    \/ ck_op = "optimize_decode_raises" /\ Encode(ck_tok, ck_text) # <<>>

\* sum of len(word) + 1 over the words of a chunk
EstimatedLength(chunk) ==
    SumSeq([w \in 1..Len(Words(chunk)) |-> Len(Words(chunk)[w]) + 1])

\* C21: optimize_text_chunking does not propagate an error of encode or
\* decode: it returns the word-based chunks, which hold every word of the
\* text once and in order, each chunk closed before its estimated length
\* would exceed 4 * max_tokens unless it is a single word.
C21_WordFallback ==
    TokenizerRaised =>
        /\ Flatten([k \in 1..Len(ck_out) |-> Words(ck_out[k])]) = Words(ck_text)
        /\ \A k \in 1..Len(ck_out) :
              /\ ck_out[k] = Join(Words(ck_out[k]), <<" ">>)
              /\ Words(ck_out[k]) # <<>>
              /\ \/ Len(Words(ck_out[k])) = 1
                 \/ EstimatedLength(ck_out[k]) <= 4 * ck_max
        /\ \A k \in 1..(Len(ck_out) - 1) :
              EstimatedLength(ck_out[k]) + Len(Words(ck_out[k + 1])[1]) + 1
                  > 4 * ck_max

\* a word over the limit became a chunk of its own next to another chunk
C21_Witness ==
    /\ TokenizerRaised
    /\ Len(ck_out) >= 2
    /\ \E k \in 1..Len(ck_out) : EstimatedLength(ck_out[k]) > 4 * ck_max

(***************************************************************************)
(* The sentence splitters, checked under SpecSplit.                        *)
(***************************************************************************)
\* the characters of a text that are not whitespace and not in drop
Kept(text, drop) == SelectSeq(text, LAMBDA c : c \notin Space /\ c \notin drop)

Trimmed(sentence) == sentence # <<>> /\ Strip(sentence) = sentence

\* C22: the splitters return trimmed, non-empty sentences in text order and
\* nothing for a blank text; a Latin sentence keeps its terminating mark and
\* is cut wherever a mark is followed by whitespace; no Chinese sentence
\* holds a full-width mark.
C22_SplitterContract ==
    /\ ck_op = "split_sentences" =>
          /\ \A k \in 1..Len(ck_out) : Trimmed(ck_out[k])
          /\ IsBlank(ck_text) => ck_out = <<>>
          /\ Kept(Flatten(ck_out), {}) = Kept(ck_text, {})
          /\ \A k \in 1..(Len(ck_out) - 1) :
                ck_out[k][Len(ck_out[k])] \in LatinEnd
          /\ \A k \in 1..Len(ck_out) : \A i \in 1..(Len(ck_out[k]) - 1) :
                ~(ck_out[k][i] \in LatinEnd /\ ck_out[k][i + 1] \in Space)
    /\ ck_op = "split_chinese_sentences" =>
          /\ \A k \in 1..Len(ck_out) : Trimmed(ck_out[k])
          /\ IsBlank(ck_text) => ck_out = <<>>
          /\ Kept(Flatten(ck_out), {}) = Kept(ck_text, CjkEnd)
          /\ \A k \in 1..Len(ck_out) : \A i \in 1..Len(ck_out[k]) :
                ck_out[k][i] \notin CjkEnd

\* a Chinese text with an empty fragment between two marks gave two sentences
C22_Witness ==
    /\ ck_op = "split_chinese_sentences"
    /\ Len(ck_out) = 2
    /\ \E i \in 1..(Len(ck_text) - 1) :
          ck_text[i] \in CjkEnd /\ ck_text[i + 1] \in CjkEnd

(***************************************************************************)
(* More claims about a request, checked under Spec.                        *)
(***************************************************************************)
\* chunk i is under the minimum and its turn is taken in this step
SkipsShortChunk(i) ==
    /\ i \in 1..Len(p_chunks)
    /\ p_chunks[i] = "short"
    /\ i \notin p_done
    /\ i \in p_done'

\* the step that skips a chunk calls no model, adds no partial summary,
\* raises nothing and stays in the loop
ShortChunkSkipped ==
    \A i \in 1..MaxChunks :
        SkipsShortChunk(i) =>
            /\ p_calls' = p_calls
            /\ p_partials' = p_partials
            /\ p_error' = p_error
            /\ p_stage' = "SUMMARIZE_CHUNKS"
            /\ p_trace' = p_trace

\* no call for a chunk under the minimum; after the loop every other chunk
\* had its call
ShortChunksUncalled ==
    /\ \A i \in 1..Len(p_chunks) : p_chunks[i] = "short" => p_calls[i] = 0
    /\ FirstPassOver =>
          \A i \in 1..Len(p_chunks) : p_chunks[i] = "ok" => p_calls[i] = 1

\* C23: the summarizer is never called on a chunk under the minimum: the
\* chunk adds no partial summary and raises no error, and the remaining
\* chunks are still processed.
C23_ShortChunkNeverSummarized ==
    []ShortChunksUncalled /\ [][ShortChunkSkipped]_vars

\* a request whose first chunk was skipped and whose second gave the summary
C23_Witness ==
    /\ p_stage = "DONE"
    /\ p_chunks = <<"short", "ok">>
    /\ p_calls = <<0, 1>>
    /\ Len(p_partials) = 1

(***************************************************************************)
(* Claims about ModelCache, checked under SpecCache.                       *)
(***************************************************************************)
\* C24: whatever set, get, clear and cleanup_expired calls are made, by
\* whatever thread, a ModelCache of max_size >= 1 never holds more than
\* max_size entries.
C24_SizeWithinMax ==
    /\ mc_max_size >= 1
    /\ Cardinality(DOMAIN mc_cache) <= mc_max_size
    /\ AccessKeys(mc_access) = DOMAIN mc_cache

\* a set on a full cache of two left it with two entries
C24_Witness ==
    /\ \E t \in Threads : th_pc[t] = "set_full"
    /\ mc_max_size = 2
    /\ Cardinality(DOMAIN mc_cache) = 2

\* the age of the entry of key that the expiry test of get measures: the
\* time from the timestamp set stored to the reading of the clock in the test
Age(key) == mc_now - mc_cache[key].ts

\* what a call of get(key) by thread t returns and changes
GetContract ==
    \A t \in Threads, key \in CacheKeys :
        CallGet(t, key) =>
            /\ key \notin DOMAIN mc_cache =>
                  /\ th_value'[t] = NoHandle
                  /\ mc_cache' = mc_cache
                  /\ mc_access' = mc_access
            /\ (key \in DOMAIN mc_cache /\ Age(key) > mc_ttl) =>
                  /\ th_value'[t] = NoHandle
                  /\ mc_cache' = DictPop(mc_cache, key)
                  /\ key \notin AccessKeys(mc_access')
                  /\ AccessKeys(mc_access') = AccessKeys(mc_access) \ {key}
            /\ th_value'[t] # NoHandle =>
                  /\ key \in DOMAIN mc_cache
                  /\ Age(key) <= mc_ttl
                  /\ th_value'[t] = mc_cache[key].item

\* C25: get never returns a value stored longer ago than ttl: for such an
\* entry it returns None and removes the key from the cache and from the
\* access times; for an absent key it returns None and changes nothing.
C25_GetHonoursTtl == [][GetContract]_vars

\* a get found its entry expired and removed it while another entry stayed
C25_Witness ==
    \E t \in Threads :
        /\ th_pc[t] = "get_expired"
        /\ th_value[t] = NoHandle
        /\ th_loader[t] \notin DOMAIN mc_cache
        /\ th_loader[t] \notin AccessKeys(mc_access)
        /\ mc_cache # <<>>

\* the time of the most recent get or set of a cached key
LastAccess(access, key) ==
    LET i == CHOOSE a \in 1..Len(access) : access[a].key = key
    IN  access[i].t

\* the cached keys no other cached key was used before
LeastRecentlyUsed ==
    {k \in DOMAIN mc_cache :
        \A o \in DOMAIN mc_cache :
            LastAccess(mc_access, k) <= LastAccess(mc_access, o)}

\* what a call of set(key, value) changes when the cache holds max_size
\* entries
SetWhenFullContract ==
    \A t \in Threads, key \in CacheKeys, m \in ModelNames :
        (CallSet(t, key, m) /\ Cardinality(DOMAIN mc_cache) = mc_max_size) =>
            \E victim \in LeastRecentlyUsed :
                /\ mc_cache' = DictPut(DictPop(mc_cache, victim), key,
                                       [item |-> CacheValue(t, m), ts |-> mc_now])
                /\ AccessKeys(mc_access') = DOMAIN mc_cache'
                /\ \A k \in DOMAIN mc_cache' \ {key} :
                      LastAccess(mc_access', k) = LastAccess(mc_access, k)
                /\ LastAccess(mc_access', key) = mc_now'

\* C26: a set on a cache that holds max_size entries evicts exactly one
\* entry before the insert, the least recently used one: the key whose
\* latest get or set is the oldest among the cached keys.
C26_EvictsLeastRecentlyUsed == [][SetWhenFullContract]_vars

\* a set on a full cache spared the key that was stored first and read
\* later, and evicted the other one
C26_Witness ==
    \E t \in Threads :
        /\ th_pc[t] = "set_full"
        /\ mc_max_size = 2
        /\ \E k \in DOMAIN mc_cache \ {th_loader[t]} :
              /\ mc_cache[k].ts < LastAccess(mc_access, k)
              /\ LastAccess(mc_access, k) < mc_now

\* what a call of set(key, value) changes when key is already cached
SetOnCachedKeyContract ==
    \A t \in Threads, key \in CacheKeys, m \in ModelNames :
        (CallSet(t, key, m) /\ key \in DOMAIN mc_cache) =>
            /\ mc_cache' = DictPut(mc_cache, key,
                                   [item |-> CacheValue(t, m), ts |-> mc_now])
            /\ \A k \in DOMAIN mc_cache \ {key} :
                  /\ k \in AccessKeys(mc_access')
                  /\ LastAccess(mc_access', k) = LastAccess(mc_access, k)

\* C28: a set on a key that is already cached only replaces the value and
\* the timestamps of that key: every other cached key and its value stay,
\* also when the cache is full.
C28_SetOnCachedKeyKeepsOthers == [][SetOnCachedKeyContract]_vars

(***************************************************************************)
(* More claims about the thread pool, checked under SpecPool.              *)
(***************************************************************************)
PoolOver == pl_pc \in {"combined", "failed"}

\* at most one summarizer call per chunk; the partials are joined only when
\* the call of every chunk has returned and its result was read
OneCallPerChunk ==
    /\ \A i \in 1..pl_n : pl_calls[i] <= 1
    /\ PoolOver =>
          /\ \A i \in 1..pl_n : pl_future[i] = "done" /\ pl_result[i] \in ChunkResults
          /\ pl_seen = 1..pl_n

\* a chunk whose call is over, with a summary or a failure, is not run again
NeverRetried ==
    \A i \in 1..pl_n :
        pl_future[i] = "done" =>
            /\ pl_future'[i] = "done"
            /\ pl_result'[i] = pl_result[i]
            /\ pl_calls'[i] = pl_calls[i]

\* C27: in the first pass of fast_summarize_text every chunk is passed to
\* the summarizer at most once and is not retried after a failure, and the
\* combined summary is built only after the call of every chunk has returned
\* or failed.
C27_AtMostOnceNoRetry == []OneCallPerChunk /\ [][NeverRetried]_vars

\* the summary was combined although the only call for one chunk had raised
C27_Witness ==
    /\ pl_pc = "combined"
    /\ \E i \in 1..pl_n : pl_result[i] = "error" /\ pl_calls[i] = 1

(***************************************************************************)
(* More claims about the cached loaders, checked under SpecLoader.         *)
(***************************************************************************)
\* the loader function of thread t raises in this step
LoaderRaises(t) == th_pc[t] = "load" /\ th_pc'[t] = "failed"

\* the exception leaves the wrapper: the request of the thread fails with
\* no handle returned and nothing is stored
RaiseLeavesCacheUnchanged ==
    \A t \in Threads :
        LoaderRaises(t) =>
            /\ mc_cache' = mc_cache
            /\ mc_access' = mc_access
            /\ th_tok'[t] = th_tok[t]
            /\ th_sum'[t] = th_sum[t]

\* a call that does not find its key cached runs the loader function
MissLoadsAgain ==
    \A t \in Threads :
        (th_pc[t] = "get" /\ th_pc'[t] # "get" /\ th_loader[t] \notin DOMAIN mc_cache)
            => th_pc'[t] = "load"

\* only handles a loader built are cached
OnlyLoadedHandlesCached ==
    \A k \in DOMAIN mc_cache :
        /\ mc_cache[k].item # NoHandle
        /\ mc_cache[k].item.model \in ModelNames

\* C29: when the loader function wrapped by cached_model_loader raises, the
\* exception propagates and the cache is left unchanged: no entry is stored
\* under the key, so the next call with the key runs the loader again.
C29_FailedLoadNotCached ==
    /\ []OnlyLoadedHandlesCached
    /\ [][RaiseLeavesCacheUnchanged /\ MissLoadsAgain]_vars

\* the summarizer loader of a request raised: the cache holds the tokenizer
\* the request had stored and nothing for the summarizer, which the other
\* thread is loading again
C29_Witness ==
    \E t, u \in Threads :
        /\ th_pc[t] = "failed"
        /\ th_loader[t] = "fast_summarizer"
        /\ DOMAIN mc_cache = {"fast_tokenizer"}
        /\ mc_cache["fast_tokenizer"].item.by = t
        /\ th_pc[u] = "load"
        /\ th_loader[u] = "fast_summarizer"
        /\ th_tok[u] = mc_cache["fast_tokenizer"].item

(***************************************************************************)
(* Termination of fast_summarize_text, checked under SpecFastFair.         *)
(***************************************************************************)
Terminated == p_stage \in {"DONE", "FAILED"}

\* no future is queued or running
NoWorkerLeft == \A i \in 1..pl_n : pl_future[i] = "done"

\* C30: provided every tokenizer and model call returns or raises,
\* fast_summarize_text ends, with a string returned (DONE) or an error
\* raised (FAILED), for every number of chunks and every scheduling of the
\* workers, and no worker is running when it ends.
C30_RequestTerminates ==
    /\ <>Terminated
    /\ [](Terminated => NoWorkerLeft)

\* a request of three chunks returned its summary after all three workers
\* had finished, the last chunk first
C30_Witness ==
    /\ p_stage = "DONE"
    /\ pl_n = 3
    /\ NoWorkerLeft
    /\ pl_combined = <<3, 1>>

=============================================================================
